---- MODULE Spec2Model ----
(***************************************************************************)
(* A model of zap's log-emission pipeline: the Core variants (nopCore,     *)
(* ioCore, multiCore, sampler), the pooled CheckedEntry, Logger.check and  *)
(* the sink registry.                                                      *)
(***************************************************************************)
EXTENDS Integers, Sequences, FiniteSets, TLC

(***************************************************************************)
(* Bounds of the model.                                                    *)
(***************************************************************************)
MaxFirst == 2
MaxThereafter == 2
MaxTick == 1
MaxTime == 2
MaxCalls == 5

(***************************************************************************)
(* Levels (zapcore.Level): Debug < Info < Warn < Error < DPanic < Panic    *)
(* < Fatal.                                                                *)
(***************************************************************************)
DebugLevel == -1
InfoLevel == 0
WarnLevel == 1
ErrorLevel == 2
DPanicLevel == 3
PanicLevel == 4
FatalLevel == 5
_minLevel == DebugLevel
_maxLevel == FatalLevel
Levels == _minLevel.._maxLevel

_numLevels == _maxLevel - _minLevel + 1
_countersPerLevel == 4096

\* A nil pointer (a nil *CheckedEntry, a nil WriteSyncer, a nil error).
Nil == 0

(***************************************************************************)
(* fnv32a over the bytes of a string.  A uint32 is kept as two 16-bit      *)
(* limbs <<hi, lo>> so that the arithmetic stays modulo 2^32.              *)
(***************************************************************************)
W16 == 65536

RECURSIVE Xor(_, _, _)
Xor(a, b, bits) ==
    IF bits = 0 THEN 0
    ELSE (((a % 2) + (b % 2)) % 2) + 2 * Xor(a \div 2, b \div 2, bits - 1)

offset32 == <<33052, 40389>>       \* 2166136261 = 0x811C9DC5
prime32Lo == 403                   \* 16777619 = 2^24 + 403
prime32Shift == 256                \* 2^24 = 2^8 * 2^16

\* hash ^= uint32(s[i]) ; hash *= prime32
FnvStep(hash, byte) ==
    LET lo  == (hash[2] - (hash[2] % 256)) + Xor(hash[2] % 256, byte, 8)
        hi  == hash[1]
        p   == lo * prime32Lo
    IN  << ((hi * prime32Lo) + (p \div W16) + ((lo % 256) * prime32Shift)) % W16,
           p % W16 >>

RECURSIVE FnvFrom(_, _, _)
FnvFrom(hash, s, i) ==
    IF i > Len(s) THEN hash ELSE FnvFrom(FnvStep(hash, s[i]), s, i + 1)

fnv32a(s) == FnvFrom(offset32, s, 1)

(***************************************************************************)
(* Messages are byte strings: "a", "b" and "bA"; "a" and "bA" hash to the  *)
(* same slot of the counter table.                                         *)
(***************************************************************************)
MsgA == <<97>>
MsgB == <<98>>
MsgBA == <<98, 65>>
Messages == {MsgA, MsgB, MsgBA}

\* fnv32a(key) % _countersPerLevel, tabulated for the messages in use.
SlotOf == [key \in Messages |-> fnv32a(key)[2] % _countersPerLevel]

\* counters.get: the bucket <<i, j>> of a level and a message.
CountersGet(lvl, key) == << lvl - _minLevel, SlotOf[key] >>

ZeroCounter == [resetAt |-> 0, counter |-> 0]


(***************************************************************************)
(* Entries, check-write actions and CheckedEntry handles.                  *)
(***************************************************************************)
NewEntry(lvl, t, msg) == [Level |-> lvl, Time |-> t, Message |-> msg]
ZeroEntry == [Level |-> InfoLevel, Time |-> 0, Message |-> <<>>]

WriteThenNoop == 0
WriteThenPanic == 1
WriteThenFatal == 2

MaxHandles == 2
HandleIds == 1..MaxHandles

\* What _cePool's New builds: a zero CheckedEntry with cores = make([]Core, 4).
PoolNew ==
    [alloc |-> TRUE, Entry |-> ZeroEntry, ErrorOutput |-> Nil, dirty |-> FALSE,
     should |-> WriteThenNoop, cores |-> <<Nil, Nil, Nil, Nil>>]

\* A handle id that stands for no object (never built, or collected).
NoHandle == [PoolNew EXCEPT !.alloc = FALSE, !.cores = <<>>]

\* CheckedEntry.reset
reset(ce) ==
    [ce EXCEPT !.Entry = ZeroEntry, !.ErrorOutput = Nil, !.dirty = FALSE,
               !.should = WriteThenNoop, !.cores = <<>>]

\* The handles sync.Pool.Get may return: one that was put, or a new one.
\* A faulty variant: the pool hands out any handle, also one a caller holds.
PoolChoices_Held(hs, pl) == HandleIds

PoolChoices(hs, pl) == {h \in HandleIds : pl[h] > 0 \/ ~hs[h].alloc}

(***************************************************************************)
(* The operations below thread a record st through the calls a Check makes:*)
(*   ce       the *CheckedEntry passed along (Nil or a handle id)          *)
(*   handles  the CheckedEntry objects, pool the content of _cePool        *)
(*   pick     the handle _cePool.Get returns if it is called               *)
(*   counts   the counter tables of the samplers                           *)
(*   trace    the calls made on cores, in order                            *)
(*   divzero  an integer division by zero happened (a run-time panic)      *)
(***************************************************************************)
\* A faulty variant: the handle is handed out as the pool gave it.
getCheckedEntry_NoReset(st) ==
    LET h   == st.pick
        got == IF st.pool[h] > 0 THEN st.handles[h] ELSE PoolNew
        pl  == IF st.pool[h] > 0 THEN [st.pool EXCEPT ![h] = @ - 1] ELSE st.pool
    IN  [st EXCEPT !.ce = h, !.pool = pl, !.handles[h] = got]

\* getCheckedEntry: _cePool.Get() followed by reset.
getCheckedEntry(st) ==
    LET h   == st.pick
        got == IF st.pool[h] > 0 THEN st.handles[h] ELSE PoolNew
        pl  == IF st.pool[h] > 0 THEN [st.pool EXCEPT ![h] = @ - 1] ELSE st.pool
    IN  [st EXCEPT !.ce = h, !.pool = pl, !.handles[h] = reset(got)]

\* A faulty variant: the CheckedEntry is not returned to the pool.
putCheckedEntry_Leak(pl, ce) == pl

\* putCheckedEntry
putCheckedEntry(pl, ce) == IF ce = Nil THEN pl ELSE [pl EXCEPT ![ce] = @ + 1]

\* A faulty variant: AddCore stamps the entry on every call.
AddCore_Restamps(st, ent, core) ==
    LET s1 == IF st.ce = Nil THEN getCheckedEntry(st) ELSE st
    IN  [s1 EXCEPT !.handles[s1.ce].Entry = ent,
                   !.handles[s1.ce].cores = Append(@, core)]

\* CheckedEntry.AddCore
AddCore(st, ent, core) ==
    LET s1 == IF st.ce = Nil
              THEN LET g == getCheckedEntry(st)
                   IN  [g EXCEPT !.handles[g.ce].Entry = ent]
              ELSE st
    IN  [s1 EXCEPT !.handles[s1.ce].cores = Append(@, core)]

\* CheckedEntry.Should
Should(st, ent, should) ==
    LET s1 == IF st.ce = Nil
              THEN LET g == getCheckedEntry(st)
                   IN  [g EXCEPT !.handles[g.ce].Entry = ent]
              ELSE st
    IN  [s1 EXCEPT !.handles[s1.ce].should = should]

(***************************************************************************)
(* counter.IncCheckReset, run without interference from other goroutines.  *)
(* Returns the counter after the call and the value the call returns.      *)
(***************************************************************************)
\* A faulty variant: an entry stamped exactly at the deadline still counts in the old window.
IncCheckReset_LateBoundary(c, tn, tick) ==
    IF c.resetAt >= tn
    THEN [c |-> [c EXCEPT !.counter = @ + 1], n |-> c.counter + 1]
    ELSE [c |-> [c EXCEPT !.counter = 1, !.resetAt = tn + tick], n |-> 1]

\* A faulty variant: a reset sets the count to 1 and leaves the deadline.
IncCheckReset_KeepsDeadline(c, tn, tick) ==
    IF c.resetAt > tn
    THEN [c |-> [c EXCEPT !.counter = @ + 1], n |-> c.counter + 1]
    ELSE [c |-> [c EXCEPT !.counter = 1], n |-> 1]

IncCheckReset(c, tn, tick) ==
    LET resetAfter == c.resetAt
    IN  IF resetAfter > tn
        THEN [c |-> [c EXCEPT !.counter = @ + 1], n |-> c.counter + 1]
        ELSE LET c1 == [c EXCEPT !.counter = 1]
                 newResetAfter == tn + tick
             IN  IF c1.resetAt = resetAfter
                 THEN [c |-> [c1 EXCEPT !.resetAt = newResetAfter], n |-> 1]
                 ELSE [c |-> [c1 EXCEPT !.counter = @ + 1], n |-> c1.counter + 1]

(***************************************************************************)
(* Cores.  An ioCore holds the address of its encoder (enc), its output    *)
(* (out) and the threshold of its LevelEnabler (enab); a multiCore its     *)
(* members; a sampler its inner core, the id of its counter table and its  *)
(* tick, first and thereafter.                                             *)
(***************************************************************************)
NewNopCore == [kind |-> "nop"]
NewCore(enc, ws, enab) == [kind |-> "io", enc |-> enc, out |-> ws, enab |-> enab]
multiCore(cores) == [kind |-> "multi", cores |-> cores]
NewSampler(core, tick, first, thereafter, table) ==
    [kind |-> "sampler", core |-> core, counts |-> table, tick |-> tick,
     first |-> first, thereafter |-> thereafter]

\* A faulty variant: a single core is wrapped too.
NewTee_AlwaysWrap(cores) ==
    IF Len(cores) = 0 THEN NewNopCore ELSE multiCore(cores)

\* NewTee
NewTee(cores) ==
    IF Len(cores) = 0 THEN NewNopCore
    ELSE IF Len(cores) = 1 THEN cores[1]
    ELSE multiCore(cores)

\* Level.Enabled of a fixed threshold
LevelEnabled(enab, lvl) == lvl >= enab

\* Enabled of each variant; a sampler's is that of its embedded Core.
RECURSIVE Enabled(_, _)
\* A faulty variant: a multiCore is enabled only when all its members are.
Enabled_AllMembers(c, lvl) ==
    CASE c.kind = "nop" -> FALSE
      [] c.kind = "io" -> LevelEnabled(c.enab, lvl)
      [] c.kind = "multi" -> \A i \in 1..Len(c.cores) : Enabled(c.cores[i], lvl)
      [] c.kind = "sampler" -> Enabled(c.core, lvl)

Enabled(c, lvl) ==
    CASE c.kind = "nop" -> FALSE
      [] c.kind = "io" -> LevelEnabled(c.enab, lvl)
      [] c.kind = "multi" -> \E i \in 1..Len(c.cores) : Enabled(c.cores[i], lvl)
      [] c.kind = "sampler" -> Enabled(c.core, lvl)

\* A faulty variant: the modulus is taken of n, not of n - first.
SamplerDrops_NoOffset(n, first, thereafter) ==
    n > first /\ n % thereafter # 0

\* The sampling decision of sampler.Check on the count n.
SamplerDrops(n, first, thereafter) ==
    n > first /\ (n - first) % thereafter # 0

\* A faulty variant: a handle is borrowed also when the level is not enabled.
IoCheck_BorrowsAlways(c, ent, st) ==
    IF Enabled(c, ent.Level) THEN AddCore(st, ent, c)
    ELSE IF st.ce = Nil THEN getCheckedEntry(st) ELSE st

RECURSIVE Check(_, _, _)
\* ioCore.Check
IoCheck(c, ent, st) ==
    IF Enabled(c, ent.Level) THEN AddCore(st, ent, c) ELSE st

\* A faulty variant: the counter is chosen by the level alone.
SamplerCheck_PerLevel(s, ent, st) ==
    IF ~Enabled(s, ent.Level) THEN st
    ELSE LET b   == CountersGet(ent.Level, MsgA)
             r   == IncCheckReset(st.counts[s.counts][b], ent.Time, s.tick)
             st1 == [st EXCEPT !.counts[s.counts][b] = r.c]
         IN  IF r.n > s.first /\ s.thereafter = 0
             THEN [st1 EXCEPT !.divzero = TRUE]
             ELSE IF SamplerDrops(r.n, s.first, s.thereafter)
                  THEN st1
                  ELSE Check(s.core, ent, st1)

\* A faulty variant: the entry is counted before the level is looked at.
SamplerCheck_CountsFirst(s, ent, st) ==
    LET b   == CountersGet(ent.Level, ent.Message)
        r   == IncCheckReset(st.counts[s.counts][b], ent.Time, s.tick)
        st1 == [st EXCEPT !.counts[s.counts][b] = r.c]
    IN  IF ~Enabled(s, ent.Level) THEN st1
        ELSE IF r.n > s.first /\ s.thereafter = 0
             THEN [st1 EXCEPT !.divzero = TRUE]
             ELSE IF SamplerDrops(r.n, s.first, s.thereafter)
                  THEN st1
                  ELSE Check(s.core, ent, st1)

\* sampler.Check
SamplerCheck(s, ent, st) ==
    IF ~Enabled(s, ent.Level) THEN st
    ELSE LET b   == CountersGet(ent.Level, ent.Message)
             r   == IncCheckReset(st.counts[s.counts][b], ent.Time, s.tick)
             st1 == [st EXCEPT !.counts[s.counts][b] = r.c]
         IN  IF r.n > s.first /\ s.thereafter = 0
             THEN [st1 EXCEPT !.divzero = TRUE]
             ELSE IF SamplerDrops(r.n, s.first, s.thereafter)
                  THEN st1
                  ELSE Check(s.core, ent, st1)

\* A faulty variant: the loop ends at the first member that admits the entry.
RECURSIVE MultiCheck_FirstOnly(_, _, _, _)
MultiCheck_FirstOnly(mc, i, ent, st) ==
    IF i > Len(mc.cores) \/ st.divzero \/ st.ce # Nil THEN st
    ELSE MultiCheck_FirstOnly(mc, i + 1, ent, Check(mc.cores[i], ent, st))

\* multiCore.Check, from member i on
RECURSIVE MultiCheck(_, _, _, _)
MultiCheck(mc, i, ent, st) ==
    IF i > Len(mc.cores) \/ st.divzero THEN st
    ELSE MultiCheck(mc, i + 1, ent, Check(mc.cores[i], ent, st))

\* Core.Check; every call is recorded in the trace.
Check(c, ent, st) ==
    LET s0 == [st EXCEPT !.trace = Append(@, <<"Check", c>>)]
    IN  CASE c.kind = "nop" -> s0
          [] c.kind = "io" -> IoCheck(c, ent, s0)
          [] c.kind = "multi" -> MultiCheck(c, 1, ent, s0)
          [] c.kind = "sampler" -> SamplerCheck(c, ent, s0)


(***************************************************************************)
(* Write and Sync.  An error is the list of the single errors it combines  *)
(* (multierr); the empty list is nil.  What the encoder and the output of  *)
(* an ioCore do is given by env, per encoder address: "ok", "encErr" (the  *)
(* encoder fails), "writeErr" (the output's Write fails) or "syncErr" (the *)
(* output's Sync fails).  encs gives the fields bound to each encoder.     *)
(* Each operation returns its error and, in ev, the calls made: CoreWrite  *)
(* for an ioCore's Write, OutWrite and OutSync for the calls on an output. *)
(***************************************************************************)
Outcomes == {"ok", "encErr", "writeErr", "syncErr"}

multierrAppend(left, right) == left \o right

\* ioCore.Sync
IoSync(c, env) ==
    [err |-> IF env[c.enc] = "syncErr" THEN << <<"syncErr", c.out>> >> ELSE <<>>,
     ev  |-> << <<"OutSync", c.out>> >>]

\* Whether ioCore.Write syncs after a successful write of an entry of this level.
SyncsAfterWrite(lvl) == lvl > ErrorLevel

\* A faulty variant: Write asks the LevelEnabler again and writes nothing when
\* the level is not enabled.
IoWrite_Rechecks(c, ent, fields, env, encs) ==
    IF LevelEnabled(c.enab, ent.Level)
    THEN [err |-> <<>>,
          ev  |-> << <<"CoreWrite", c.enc>>,
                     <<"OutWrite", c.out, ent, encs[c.enc] \o fields>> >>]
    ELSE [err |-> <<>>, ev |-> <<>>]

\* A faulty variant: the error of the Sync after a write is returned.
IoWrite_ReturnsSyncError(c, ent, fields, env, encs) ==
    LET call == <<"CoreWrite", c.enc>>
        w    == <<"OutWrite", c.out, ent, encs[c.enc] \o fields>>
    IN  CASE env[c.enc] = "encErr" -> [err |-> << <<"encErr", c.enc>> >>, ev |-> <<call>>]
          [] env[c.enc] = "writeErr" -> [err |-> << <<"writeErr", c.out>> >>, ev |-> <<call, w>>]
          [] OTHER -> IF SyncsAfterWrite(ent.Level)
                      THEN [err |-> IoSync(c, env).err, ev |-> <<call, w>> \o IoSync(c, env).ev]
                      ELSE [err |-> <<>>, ev |-> <<call, w>>]

\* ioCore.Write
IoWrite(c, ent, fields, env, encs) ==
    LET call == <<"CoreWrite", c.enc>>
    IN  IF env[c.enc] = "encErr"
        THEN [err |-> << <<"encErr", c.enc>> >>, ev |-> <<call>>]
        ELSE LET w == <<"OutWrite", c.out, ent, encs[c.enc] \o fields>>
             IN  IF env[c.enc] = "writeErr"
                 THEN [err |-> << <<"writeErr", c.out>> >>, ev |-> <<call, w>>]
                 ELSE IF SyncsAfterWrite(ent.Level)
                      THEN [err |-> <<>>, ev |-> <<call, w>> \o IoSync(c, env).ev]
                      ELSE [err |-> <<>>, ev |-> <<call, w>>]

RECURSIVE CoreWrite(_, _, _, _, _)
\* A faulty variant: the loop stops at the first member that fails.
RECURSIVE MultiWrite_ShortCircuit(_, _, _, _, _, _, _)
MultiWrite_ShortCircuit(mc, i, ent, fields, env, encs, acc) ==
    IF i > Len(mc.cores) \/ acc.err # <<>> THEN acc
    ELSE LET r == CoreWrite(mc.cores[i], ent, fields, env, encs)
         IN  MultiWrite_ShortCircuit(mc, i + 1, ent, fields, env, encs,
                        [err |-> multierrAppend(acc.err, r.err), ev |-> acc.ev \o r.ev])

\* multiCore.Write, from member i on, with the error and calls so far
RECURSIVE MultiWrite(_, _, _, _, _, _, _)
MultiWrite(mc, i, ent, fields, env, encs, acc) ==
    IF i > Len(mc.cores) THEN acc
    ELSE LET r == CoreWrite(mc.cores[i], ent, fields, env, encs)
         IN  MultiWrite(mc, i + 1, ent, fields, env, encs,
                        [err |-> multierrAppend(acc.err, r.err), ev |-> acc.ev \o r.ev])

\* Core.Write; a sampler's is that of its embedded Core.
CoreWrite(c, ent, fields, env, encs) ==
    CASE c.kind = "nop" -> [err |-> <<>>, ev |-> <<>>]
      [] c.kind = "io" -> IoWrite(c, ent, fields, env, encs)
      [] c.kind = "multi" -> MultiWrite(c, 1, ent, fields, env, encs, [err |-> <<>>, ev |-> <<>>])
      [] c.kind = "sampler" -> CoreWrite(c.core, ent, fields, env, encs)

RECURSIVE CoreSync(_, _)
\* multiCore.Sync, from member i on
RECURSIVE MultiSync(_, _, _, _)
MultiSync(mc, i, env, acc) ==
    IF i > Len(mc.cores) THEN acc
    ELSE LET r == CoreSync(mc.cores[i], env)
         IN  MultiSync(mc, i + 1, env,
                       [err |-> multierrAppend(acc.err, r.err), ev |-> acc.ev \o r.ev])

\* Core.Sync
CoreSync(c, env) ==
    CASE c.kind = "nop" -> [err |-> <<>>, ev |-> <<>>]
      [] c.kind = "io" -> IoSync(c, env)
      [] c.kind = "multi" -> MultiSync(c, 1, env, [err |-> <<>>, ev |-> <<>>])
      [] c.kind = "sampler" -> CoreSync(c.core, env)

(***************************************************************************)
(* With.  The encoders live in a heap hp: hp[a] is the list of the fields  *)
(* bound to the encoder at address a.  Encoder.Clone makes a new encoder   *)
(* with a copy of the fields; addFields adds fields to the encoder at an   *)
(* address.  Each With returns the new core and the heap after the call.   *)
(***************************************************************************)
\* Encoder.Clone
EncClone(hp, enc) == [enc |-> Len(hp) + 1, hp |-> Append(hp, hp[enc])]

\* addFields(enc, fields)
addFields(hp, enc, fields) == [hp EXCEPT ![enc] = @ \o fields]

\* A faulty variant: the clone keeps the encoder of the original.
IoClone_SharedEncoder(c, hp) == [core |-> c, hp |-> hp]

\* ioCore.clone
IoClone(c, hp) ==
    LET e == EncClone(hp, c.enc)
    IN  [core |-> [c EXCEPT !.enc = e.enc], hp |-> e.hp]

\* ioCore.With
IoWith(c, fields, hp) ==
    LET clone == IoClone(c, hp)
    IN  [core |-> clone.core, hp |-> addFields(clone.hp, clone.core.enc, fields)]

RECURSIVE CoreWith(_, _, _)
\* multiCore.With, from member i on; acc holds the clone so far
RECURSIVE MultiWith(_, _, _, _)
MultiWith(mc, i, fields, acc) ==
    IF i > Len(mc.cores) THEN acc
    ELSE LET r == CoreWith(mc.cores[i], fields, acc.hp)
         IN  MultiWith(mc, i + 1, fields,
                       [core |-> [acc.core EXCEPT !.cores = Append(@, r.core)], hp |-> r.hp])

\* A faulty variant: the new sampler gets a counter table of its own.
SamplerWith_OwnCounters(s, fields, hp) ==
    LET r == CoreWith(s.core, fields, hp)
    IN  [core |-> [kind |-> "sampler", core |-> r.core, counts |-> s.counts + 1,
                   tick |-> s.tick, first |-> s.first, thereafter |-> s.thereafter],
         hp |-> r.hp]

\* sampler.With
SamplerWith(s, fields, hp) ==
    LET r == CoreWith(s.core, fields, hp)
    IN  [core |-> [kind |-> "sampler", core |-> r.core, counts |-> s.counts,
                   tick |-> s.tick, first |-> s.first, thereafter |-> s.thereafter],
         hp |-> r.hp]

\* Core.With
CoreWith(c, fields, hp) ==
    CASE c.kind = "nop" -> [core |-> c, hp |-> hp]
      [] c.kind = "io" -> IoWith(c, fields, hp)
      [] c.kind = "multi" -> MultiWith(c, 1, fields, [core |-> multiCore(<<>>), hp |-> hp])
      [] c.kind = "sampler" -> SamplerWith(c, fields, hp)

\* The ioCores a core writes to, in the order of its members.
RECURSIVE Leaves(_)
RECURSIVE LeavesFrom(_, _)
LeavesFrom(cores, i) ==
    IF i > Len(cores) THEN <<>> ELSE Leaves(cores[i]) \o LeavesFrom(cores, i + 1)
Leaves(c) ==
    CASE c.kind = "nop" -> <<>>
      [] c.kind = "io" -> <<c>>
      [] c.kind = "multi" -> LeavesFrom(c.cores, 1)
      [] c.kind = "sampler" -> Leaves(c.core)

(***************************************************************************)
(* The sink registry.  A scheme is the list of its bytes; _sinkFactories   *)
(* is a function from the normalized schemes registered to their factory.  *)
(***************************************************************************)
schemeFile == <<102, 105, 108, 101>>

\* Factories: newFileSink, and NoFactory for the nil func a failed lookup gives.
newFileSink == 0
NoFactory == -1

\* strings.ToLower, on ASCII
ToLower(s) == [i \in DOMAIN s |-> IF s[i] \in 65..90 THEN s[i] + 32 ELSE s[i]]

\* A faulty variant: '_' is allowed too.
SchemeByte_Underscore(c) == c \in 97..122 \/ c \in 48..57 \/ c \in {46, 43, 45, 95}

\* The bytes normalizeScheme allows after the first: a-z, 0-9, '.', '+', '-'
SchemeByte(c) == c \in 97..122 \/ c \in 48..57 \/ c \in {46, 43, 45}

\* normalizeScheme, for a scheme that is not empty
normalizeScheme(scheme) ==
    LET s == ToLower(scheme)
    IN  IF 97 > s[1] \/ 122 < s[1]
        THEN [s |-> <<>>, err |-> "must start with a letter"]
        ELSE IF \E i \in 2..Len(s) : ~SchemeByte(s[i])
             THEN [s |-> <<>>, err |-> "may not contain"]
             ELSE [s |-> s, err |-> "nil"]

\* resetSinkRegistry: the map with the "file" scheme alone
resetSinkRegistry == [n \in {schemeFile} |-> newFileSink]

\* A faulty variant: the lookup in RegisterSink finds nothing.
Registered_Never(factories, normalized) == FALSE

\* _, ok := _sinkFactories[normalized]
Registered(factories, normalized) == normalized \in DOMAIN factories

\* _sinkFactories[normalized] = factory
MapPut(factories, normalized, factory) ==
    [n \in DOMAIN factories \cup {normalized} |->
        IF n = normalized THEN factory ELSE factories[n]]

\* A faulty variant: an empty scheme is looked up as it is.
SinkScheme_NoDefault(scheme) == scheme

\* newSink: u.Scheme, "file" when the URL has none
SinkScheme(scheme) == IF scheme = <<>> THEN schemeFile ELSE scheme

\* What a factory returns: a sink or an error.
FactoryResults == {"sink", "err"}

\* A faulty variant: Lock does not wait for the holders of the mutex.
CanLock_NoExclusion(mu) == TRUE

\* sync.RWMutex: Lock waits while a writer or readers hold it, RLock while a
\* writer holds it.
CanLock(mu) == mu.w = 0 /\ mu.r = {}
CanRLock(mu) == mu.w = 0

\* A faulty variant: newSink keeps the shared lock while it calls the factory.
RUnlock_Kept(mu, p) == mu

\* _sinkMutex.RUnlock() and _sinkMutex.Unlock()
RUnlock(mu, p) == [mu EXCEPT !.r = @ \ {p}]
Unlock(mu) == [mu EXCEPT !.w = 0]

(***************************************************************************)
(* newFileSink.  A parsed URL is the record of the fields newFileSink      *)
(* reads: user (u.User != nil), fragment, rawQuery, port (u.Port()), host  *)
(* (u.Hostname()) and path.  A sink is a nopCloserSink around a standard   *)
(* stream or a file.  newFileSink returns the sink (NoSink for nil), the   *)
(* error ("nil" for none) and the os.OpenFile calls it made.               *)
(***************************************************************************)
NoSink == [kind |-> "nil", target |-> ""]
nopCloserSink(stream) == [kind |-> "nopCloser", target |-> stream]
FileSink(path) == [kind |-> "file", target |-> path]

\* os.O_WRONLY|os.O_APPEND|os.O_CREATE
OpenFlags == {"O_WRONLY", "O_APPEND", "O_CREATE"}

\* newFileSink(u); openOk tells whether os.OpenFile succeeds
newFileSinkOf(u, openOk) ==
    IF u.user THEN [sink |-> NoSink, err |-> "user", opens |-> <<>>]
    ELSE IF u.fragment # "" THEN [sink |-> NoSink, err |-> "fragment", opens |-> <<>>]
    ELSE IF u.rawQuery # "" THEN [sink |-> NoSink, err |-> "query", opens |-> <<>>]
    ELSE IF u.port # "" THEN [sink |-> NoSink, err |-> "port", opens |-> <<>>]
    ELSE IF u.host # "" /\ u.host # "localhost"
         THEN [sink |-> NoSink, err |-> "host", opens |-> <<>>]
    ELSE IF u.path = "stdout" THEN [sink |-> nopCloserSink("stdout"), err |-> "nil", opens |-> <<>>]
    ELSE IF u.path = "stderr" THEN [sink |-> nopCloserSink("stderr"), err |-> "nil", opens |-> <<>>]
    ELSE [sink  |-> IF openOk THEN FileSink(u.path) ELSE NoSink,
          err   |-> IF openOk THEN "nil" ELSE "open",
          opens |-> << <<u.path, OpenFlags>> >>]

\* A faulty variant: Close of a nopCloserSink closes the stream it wraps.
NopClose_ClosesStream(streams, stream) == [streams EXCEPT ![stream] = FALSE]

\* nopCloserSink.Close: returns nil; the streams after the call
NopClose(streams, stream) == streams

(***************************************************************************)
(* Logger.check: the entry is checked by the core, the terminal action of  *)
(* its level is set, and the logger's error output is threaded through.    *)
(* log = [core, development, errorOutput].                                 *)
(***************************************************************************)
\* A faulty variant: the terminal action is set only when some core will write.
LoggerCheck_TerminalOnlyIfWritten(log, ent, st) ==
    LET s1 == Check(log.core, ent, st)
    IN  IF s1.ce = Nil THEN s1
        ELSE LET s2 == CASE ent.Level = PanicLevel -> Should(s1, ent, WriteThenPanic)
                         [] ent.Level = FatalLevel -> Should(s1, ent, WriteThenFatal)
                         [] OTHER -> s1
             IN  [s2 EXCEPT !.handles[s2.ce].ErrorOutput = log.errorOutput]

\* A faulty variant: a DPanic entry panics in every mode.
LoggerCheck_DPanicAlways(log, ent, st) ==
    LET s1 == Check(log.core, ent, st)
        willWrite == s1.ce # Nil
        s2 == CASE ent.Level \in {PanicLevel, DPanicLevel} -> Should(s1, ent, WriteThenPanic)
                [] ent.Level = FatalLevel -> Should(s1, ent, WriteThenFatal)
                [] OTHER -> s1
    IN  IF ~willWrite THEN s2
        ELSE [s2 EXCEPT !.handles[s2.ce].ErrorOutput = log.errorOutput]

LoggerCheck(log, ent, st) ==
    LET s1 == Check(log.core, ent, st)
        willWrite == s1.ce # Nil
        s2 == CASE ent.Level = PanicLevel -> Should(s1, ent, WriteThenPanic)
                [] ent.Level = FatalLevel -> Should(s1, ent, WriteThenFatal)
                [] ent.Level = DPanicLevel /\ log.development -> Should(s1, ent, WriteThenPanic)
                [] OTHER -> s1
    IN  IF ~willWrite THEN s2
        ELSE [s2 EXCEPT !.handles[s2.ce].ErrorOutput = log.errorOutput]

\* A faulty variant: a used CheckedEntry is not recognised.
IsReuse_Never(ce) == FALSE

\* CheckedEntry.Write: the test for unsafe re-use.
IsReuse(ce) == ce.dirty

(***************************************************************************)
(* State.                                                                  *)
(*   sam      a sampler over an ioCore and the Check calls made on it      *)
(*   lg       the Logger: its core, development flag and error output, the *)
(*            counter tables of its samplers, the clock, exited (os.Exit   *)
(*            was called)                                                  *)
(*   handles  the CheckedEntry objects                                     *)
(*   pool     _cePool: how many times each handle is in the pool           *)
(*   procs    the goroutines that log: where each is in its call           *)
(*   tee      cores built with NewTee and With, the heap of their encoders *)
(*            and the last call made on one of them                        *)
(*   reg      the sink registry: _sinkFactories, _sinkMutex and the        *)
(*            goroutines that call RegisterSink and newSink                *)
(*   ctr      one counter of a sampler and the goroutines that are inside  *)
(*            IncCheckReset on it                                          *)
(*   fs       the files and standard streams, and the sinks newFileSink    *)
(*            returned                                                     *)
(*   late     a core whose level threshold can change, and an entry that   *)
(*            was checked and is written later                             *)
(***************************************************************************)
VARIABLES sam, lg, handles, pool, procs, tee, reg, ctr, fs, late

vars == <<sam, lg, handles, pool, procs, tee, reg, ctr, fs, late>>
samVars == <<sam>>
logVars == <<lg, handles, pool, procs>>

\* The variables of the parts a specification does not use keep these values.
IdleSam == sam = <<>>
IdleLog == lg = <<>> /\ handles = <<>> /\ pool = <<>> /\ procs = <<>>
IdleTee == tee = <<>>
IdleReg == reg = <<>>
IdleCtr == ctr = <<>>
IdleFs == fs = <<>>
IdleLate == late = <<>>

Range(f) == {f[i] : i \in DOMAIN f}

\* Timestamps in UnixNano; those before 1970 are negative.
Times == -1..MaxTime
Skews == {0, 1}

\* The state a Check starts from when no handle is in use.
FreshSt(cnts) ==
    [ce |-> Nil, handles |-> [h \in HandleIds |-> NoHandle],
     pool |-> [h \in HandleIds |-> 0], pick |-> 1, counts |-> cnts,
     trace |-> <<>>, divzero |-> FALSE]

(***************************************************************************)
(* Specification SpecSampler: sequential Check calls on one sampler, with  *)
(* entries of any level, message and timestamp.  The handle a Check        *)
(* returns is dropped by the caller.                                       *)
(*   win   per bucket, the window as the callers see it: its deadline, the *)
(*         number of calls in it and their messages                        *)
(*   last  what the last Check call did                                    *)
(***************************************************************************)
SamLevels == {InfoLevel, ErrorLevel}
SamEnablers == {WarnLevel}
SamTable == 1

SamBuckets == {CountersGet(l, m) : l \in SamLevels, m \in Messages}

NoCall ==
    [valid |-> FALSE, bucket |-> <<0, 0>>, enabled |-> FALSE, opened |-> FALSE,
     ordinal |-> 0, same |-> FALSE, prevCount |-> 0, delegated |-> FALSE,
     admitted |-> FALSE, divzero |-> FALSE]

SamInit ==
    /\ IdleLog /\ IdleTee /\ IdleReg /\ IdleCtr /\ IdleFs /\ IdleLate
    /\ \E F \in 0..MaxFirst, M \in 0..MaxThereafter, T \in 0..MaxTick, E \in SamEnablers :
        sam = [core   |-> NewSampler(NewCore(1, 1, E), T, F, M, SamTable),
               counts |-> [t \in {SamTable} |-> [b \in SamBuckets |-> ZeroCounter]],
               win    |-> [b \in SamBuckets |-> [deadline |-> 0, n |-> 0, msgs |-> {}]],
               last   |-> NoCall,
               now    |-> -1,
               calls  |-> 0]

\* The clock advances.
SamTick ==
    /\ sam.now < MaxTime
    /\ sam' = [sam EXCEPT !.now = @ + 1]
    /\ UNCHANGED <<logVars, tee, reg, ctr, fs, late>>

SamCheck(lvl, msg, t) ==
    /\ sam.calls < MaxCalls
    /\ UNCHANGED <<logVars, tee, reg, ctr, fs, late>>
    /\ LET ent  == NewEntry(lvl, t, msg)
           st1  == Check(sam.core, ent, FreshSt(sam.counts))
           b    == CountersGet(lvl, msg)
           w    == sam.win[b]
           en   == Enabled(sam.core.core, lvl)
           open == t >= w.deadline
           w1   == IF ~en THEN w
                   ELSE IF open
                        THEN [deadline |-> t + sam.core.tick, n |-> 1, msgs |-> {msg}]
                        ELSE [w EXCEPT !.n = @ + 1, !.msgs = @ \cup {msg}]
       IN  sam' = [sam EXCEPT
                     !.counts = st1.counts,
                     !.win[b] = w1,
                     !.calls = @ + 1,
                     !.last = [valid     |-> TRUE,
                               bucket    |-> b,
                               enabled   |-> en,
                               opened    |-> en /\ open,
                               ordinal   |-> w1.n,
                               same      |-> w1.msgs = {msg},
                               prevCount |-> sam.counts[SamTable][b].counter,
                               delegated |-> <<"Check", sam.core.core>> \in Range(st1.trace),
                               admitted  |-> st1.ce # Nil,
                               divzero   |-> st1.divzero]]

\* A caller stamps its entry with the time it read, which may be a little
\* behind the clock when the entry reaches the sampler.
SamLog ==
    \E lvl \in SamLevels, msg \in Messages, skew \in Skews :
        /\ sam.now - skew \in Times
        /\ SamCheck(lvl, msg, sam.now - skew)

SamNext == SamTick \/ SamLog

SpecSampler == SamInit /\ [][SamNext]_vars

LastBucket == sam.last.bucket

\* C1: within one window of a bucket that only one message uses, the n-th
\* Check of an enabled level is delegated to the inner core iff n <= first or
\* (n - first) mod thereafter = 0 (thereafter >= 1).
C1_SamplingPattern ==
    (sam.last.valid /\ sam.last.enabled /\ sam.last.same /\ sam.core.thereafter >= 1)
    => (sam.last.delegated <=>
            \/ sam.last.ordinal <= sam.core.first
            \/ (sam.last.ordinal - sam.core.first) % sam.core.thereafter = 0)

\* The occurrence first + 2 * thereafter of a window was admitted.
C1_Witness ==
    /\ sam.last.valid /\ sam.last.enabled /\ sam.last.same
    /\ sam.core.first >= 1 /\ sam.core.thereafter >= 2
    /\ sam.last.ordinal = sam.core.first + 2 * sam.core.thereafter
    /\ sam.last.delegated

\* C2 as claimed: a Check at or past the bucket's deadline leaves the count
\* at 1 and is delegated, for every first >= 0 and thereafter >= 1.
C2_AdmittedAfterBoundary ==
    (sam.last.valid /\ sam.last.opened /\ sam.core.thereafter >= 1)
    => /\ sam.counts[SamTable][LastBucket].counter = 1
       /\ sam.last.delegated

\* C2, amended: a Check at or past the bucket's deadline leaves the count at
\* 1, and it is delegated iff first >= 1 or thereafter = 1.
C2_ResetAfterBoundary ==
    (sam.last.valid /\ sam.last.opened /\ sam.core.thereafter >= 1)
    => /\ sam.counts[SamTable][LastBucket].counter = 1
       /\ sam.last.delegated <=> (sam.core.first >= 1 \/ sam.core.thereafter = 1)

\* A window that had dropped entries was left and the next entry admitted.
C2_Witness ==
    /\ sam.last.valid /\ sam.last.opened /\ sam.core.thereafter >= 2
    /\ sam.core.first >= 1
    /\ sam.last.prevCount > sam.core.first
    /\ sam.last.delegated

\* C14 as claimed: a sampler built with thereafter = 0 drops the entries
\* after the first ones of a window, and none of its Check calls divides by
\* zero.
C14_NoDivisionByZero ==
    (sam.last.valid /\ sam.core.kind = "sampler" /\ sam.core.thereafter = 0)
    => /\ ~sam.last.divzero
       /\ (sam.last.enabled /\ sam.last.ordinal > sam.core.first) => ~sam.last.delegated

\* NewSampler built a sampler with thereafter = 0 and a Check on it took the
\* remainder of a division by zero.
C14_Witness ==
    /\ sam.core.kind = "sampler" /\ sam.core.thereafter = 0
    /\ sam.last.valid /\ sam.last.enabled
    /\ sam.last.ordinal > sam.core.first
    /\ sam.last.divzero

\* What a Check step does to the counters: only the counter of the entry's
\* level and slot may change, and a Check of an enabled level sets it to 1
\* when it opens a window and adds 1 to it otherwise.
CountsStep ==
    sam'.calls = sam.calls + 1
    => LET b == sam'.last.bucket
       IN  /\ \A c \in SamBuckets \ {b} :
                 sam'.counts[SamTable][c] = sam.counts[SamTable][c]
           /\ sam'.last.enabled /\ ~sam'.last.divzero
                 => sam'.counts[SamTable][b].counter
                       = IF sam'.last.opened THEN 1
                         ELSE sam.counts[SamTable][b].counter + 1

\* C30: the messages "a" and "bA" have the same slot and "b" another one; a
\* Check changes no counter but that of its level and slot, and the count of
\* a slot is the number of Checks of its window, whatever their messages.
C30_SharedSlot ==
    /\ [](\A l \in SamLevels :
             /\ CountersGet(l, MsgA) = CountersGet(l, MsgBA)
             /\ CountersGet(l, MsgA) # CountersGet(l, MsgB)
             /\ \A k \in SamLevels \ {l} : CountersGet(l, MsgA) # CountersGet(k, MsgA))
    /\ []((sam.last.valid /\ sam.last.enabled)
            => sam.counts[SamTable][LastBucket].counter = sam.last.ordinal)
    /\ [][CountsStep]_vars

\* The second Check of a window had another message than the first, and
\* was dropped because the first had used up the budget of the slot.
C30_Witness ==
    /\ sam.last.valid /\ sam.last.enabled /\ ~sam.last.same
    /\ sam.core.first = 1 /\ sam.core.thereafter = 2
    /\ sam.last.ordinal = 2 /\ ~sam.last.delegated
    /\ sam.counts[SamTable][LastBucket].counter = 2


(***************************************************************************)
(* Specification SpecLogger: goroutines log through one Logger.  A call is *)
(* Logger.check followed, when it returns a handle, by CheckedEntry.Write, *)
(* which runs in steps: the re-use test, one core's Write at a time, the   *)
(* error report, the return to the pool, the terminal action.  All calls   *)
(* read the same time from the clock (SpecSampler moves the clock).        *)
(*   pc       idle, write, cores, put, terminal or done                    *)
(*   ce       the handle the call holds                                    *)
(*   i, n     the loop over ce.cores                                       *)
(*   err      the errors of the cores' Writes                              *)
(*   should, msg   what Write read from the handle before returning it     *)
(*   ev       the calls this Write made on outputs, the pool and the       *)
(*            process, in order                                            *)
(*   outcome  how the call ended: returned, panic, exit or oob (an index   *)
(*            out of range)                                                *)
(*   second   this Write is a repeated Write on a retained reference       *)
(*   intact   nobody borrowed the handle since this goroutine borrowed it  *)
(*            or, after that, returned it to the pool                      *)
(*   sawIntact, sawErrOut   intact and the handle's ErrorOutput when Write *)
(*            was entered                                                  *)
(*   stamped  the cores Logger.check collected on the handle, kept while   *)
(*            the goroutine has not returned the handle to the pool        *)
(***************************************************************************)
MaxLogCalls == 2
\* Two goroutines log concurrently.
Procs == {1, 2}
ErrOut == 1

LogLevels == {InfoLevel, DPanicLevel, PanicLevel, FatalLevel}
LogTable == 1
LogEncs == [e \in 1..3 |-> <<>>]

\* The cores a Logger is built over.
LogCores ==
    << NewNopCore,
       NewCore(1, 1, ErrorLevel),
       NewTee(<<NewCore(1, 1, InfoLevel), NewCore(2, 2, PanicLevel)>>),
       NewSampler(NewCore(1, 1, InfoLevel), 1, 1, 2, LogTable),
       NewTee(<<NewSampler(NewCore(1, 1, DPanicLevel), 1, 0, 2, LogTable),
                NewCore(2, 2, FatalLevel)>>) >>

LogBuckets == {CountersGet(l, MsgA) : l \in LogLevels}

IdleProc ==
    [pc |-> "idle", ce |-> Nil, ent |-> ZeroEntry, i |-> 0, n |-> 0, err |-> <<>>,
     should |-> WriteThenNoop, msg |-> <<>>, ev |-> <<>>, outcome |-> "none",
     second |-> FALSE, intact |-> TRUE, sawIntact |-> TRUE, sawErrOut |-> Nil,
     stamped |-> <<>>]

LogInit ==
    /\ IdleSam /\ IdleTee /\ IdleReg /\ IdleCtr /\ IdleFs /\ IdleLate
    /\ \E k \in 1..Len(LogCores), dev \in BOOLEAN :
          lg = [core |-> LogCores[k], development |-> dev, errorOutput |-> ErrOut,
                counts |-> [t \in {LogTable} |-> [b \in LogBuckets |-> ZeroCounter]],
                now |-> 0, exited |-> FALSE, calls |-> 0]
    /\ handles = [h \in HandleIds |-> NoHandle]
    /\ pool = [h \in HandleIds |-> 0]
    /\ procs = [p \in Procs |-> IdleProc]

\* A Logger method (Info, Error, DPanic, Panic, Fatal) calls log.check.
LogCall(p, lvl, pick) ==
    /\ ~lg.exited
    /\ procs[p].pc = "idle"
    /\ lg.calls < MaxLogCalls
    /\ pick \in PoolChoices(handles, pool)
    /\ LET ent == NewEntry(lvl, lg.now, MsgA)
           st0 == [ce |-> Nil, handles |-> handles, pool |-> pool, pick |-> pick,
                   counts |-> lg.counts, trace |-> <<>>, divzero |-> FALSE]
           st1 == LoggerCheck(lg, ent, st0)
       IN  /\ handles' = st1.handles
           /\ pool' = st1.pool
           /\ lg' = [lg EXCEPT !.counts = st1.counts, !.calls = @ + 1]
           /\ procs' = [q \in Procs |->
                 IF q = p
                 THEN IF st1.ce = Nil
                      THEN [IdleProc EXCEPT !.pc = "done", !.ent = ent,
                                            !.outcome = "returned"]
                      ELSE [IdleProc EXCEPT !.pc = "write", !.ent = ent, !.ce = st1.ce,
                                            !.stamped = st1.handles[st1.ce].cores]
                 ELSE IF st1.ce # Nil /\ procs[q].ce = st1.ce
                      THEN [procs[q] EXCEPT !.intact = FALSE]
                      ELSE procs[q]]
    /\ UNCHANGED <<ctr, fs, late, tee, reg, sam>>

\* CheckedEntry.Write up to the loop: the re-use test, then dirty = true.
WriteBegin(p) ==
    /\ ~lg.exited
    /\ procs[p].pc = "write"
    /\ LET h == procs[p].ce
       IN  IF IsReuse(handles[h])
           THEN /\ procs' = [procs EXCEPT
                      ![p].pc = "done", ![p].outcome = "returned",
                      ![p].sawIntact = procs[p].intact,
                      ![p].sawErrOut = handles[h].ErrorOutput,
                      ![p].ev = IF handles[h].ErrorOutput # Nil
                                THEN << <<"ReuseReport", handles[h].ErrorOutput>>,
                                        <<"ErrSync", handles[h].ErrorOutput>> >>
                                ELSE <<>>]
                /\ UNCHANGED handles
           ELSE /\ handles' = [handles EXCEPT ![h].dirty = TRUE]
                /\ procs' = [procs EXCEPT
                      ![p].pc = "cores", ![p].i = 1, ![p].n = Len(handles[h].cores),
                      ![p].sawIntact = procs[p].intact,
                      ![p].sawErrOut = handles[h].ErrorOutput,
                      ![p].err = <<>>]
    /\ UNCHANGED <<ctr, fs, late, tee, reg, sam, lg, pool>>

\* One round of the loop: ce.cores[i].Write(ce.Entry, fields).
WriteCore(p, oc) ==
    /\ ~lg.exited
    /\ procs[p].pc = "cores"
    /\ procs[p].i <= procs[p].n
    /\ LET h == procs[p].ce
           i == procs[p].i
       IN  IF i > Len(handles[h].cores)
           THEN procs' = [procs EXCEPT ![p].pc = "done", ![p].outcome = "oob"]
           ELSE LET r == CoreWrite(handles[h].cores[i], handles[h].Entry, <<>>,
                                   [e \in DOMAIN LogEncs |-> oc], LogEncs)
                IN  procs' = [procs EXCEPT
                       ![p].i = i + 1,
                       ![p].err = multierrAppend(@, r.err),
                       ![p].ev = @ \o r.ev]
    /\ UNCHANGED <<ctr, fs, late, tee, reg, sam, lg, handles, pool>>

\* A faulty variant: the report is written whenever ErrorOutput is set,
\* whether or not a core failed.
WriteReport_Always(p) ==
    /\ ~lg.exited
    /\ procs[p].pc = "cores"
    /\ procs[p].i > procs[p].n
    /\ LET h == procs[p].ce
           eo == handles[h].ErrorOutput
       IN  procs' = [procs EXCEPT
              ![p].pc = "put",
              ![p].should = handles[h].should,
              ![p].msg = handles[h].Entry.Message,
              ![p].ev = IF eo # Nil
                        THEN @ \o << <<"ErrorReport", eo, procs[p].err>>, <<"ErrSync", eo>> >>
                        ELSE @]
    /\ UNCHANGED <<ctr, fs, late, tee, reg, sam, lg, handles, pool>>

\* After the loop: the error report, then should and msg are read.
WriteReport(p) ==
    /\ ~lg.exited
    /\ procs[p].pc = "cores"
    /\ procs[p].i > procs[p].n
    /\ LET h == procs[p].ce
           eo == handles[h].ErrorOutput
       IN  procs' = [procs EXCEPT
              ![p].pc = "put",
              ![p].should = handles[h].should,
              ![p].msg = handles[h].Entry.Message,
              ![p].ev = IF eo # Nil /\ procs[p].err # <<>>
                        THEN @ \o << <<"ErrorReport", eo, procs[p].err>>, <<"ErrSync", eo>> >>
                        ELSE @]
    /\ UNCHANGED <<ctr, fs, late, tee, reg, sam, lg, handles, pool>>

\* putCheckedEntry(ce)
WritePut(p) ==
    /\ ~lg.exited
    /\ procs[p].pc = "put"
    /\ pool' = putCheckedEntry(pool, procs[p].ce)
    /\ procs' = [procs EXCEPT ![p].pc = "terminal", ![p].intact = TRUE,
                              ![p].stamped = <<>>,
                              ![p].ev = Append(@, <<"Put", procs[p].ce>>)]
    /\ UNCHANGED <<ctr, fs, late, tee, reg, sam, lg, handles>>

\* switch should: panic(msg), exit.Exit() or nothing.
WriteTerminal(p) ==
    /\ ~lg.exited
    /\ procs[p].pc = "terminal"
    /\ procs' = [procs EXCEPT
          ![p].pc = "done",
          ![p].outcome = CASE procs[p].should = WriteThenPanic -> "panic"
                           [] procs[p].should = WriteThenFatal -> "exit"
                           [] OTHER -> "returned",
          ![p].ev = CASE procs[p].should = WriteThenPanic -> Append(@, <<"Panic", procs[p].msg>>)
                      [] procs[p].should = WriteThenFatal -> Append(@, <<"Exit">>)
                      [] OTHER -> @]
    /\ lg' = [lg EXCEPT !.exited = (procs[p].should = WriteThenFatal)]
    /\ UNCHANGED <<ctr, fs, late, tee, reg, sam, handles, pool>>

\* The call is over and the goroutine drops its reference.
Return(p) ==
    /\ ~lg.exited
    /\ procs[p].pc = "done"
    /\ procs' = [procs EXCEPT ![p] = IdleProc]
    /\ UNCHANGED <<ctr, fs, late, tee, reg, sam, lg, handles, pool>>

LogNext ==
    \/ \E p \in Procs, lvl \in LogLevels, pick \in HandleIds : LogCall(p, lvl, pick)
    \/ \E p \in Procs : WriteBegin(p)
    \/ \E p \in Procs, oc \in Outcomes : WriteCore(p, oc)
    \/ \E p \in Procs : WriteReport(p)
    \/ \E p \in Procs : WritePut(p)
    \/ \E p \in Procs : WriteTerminal(p)
    \/ \E p \in Procs : Return(p)

SpecLogger == LogInit /\ [][LogNext]_vars


(***************************************************************************)
(* Specification SpecReuse: as SpecLogger, and a goroutine may keep the    *)
(* reference after Write (returned or recovered from its panic) and call   *)
(* Write on it again.                                                      *)
(***************************************************************************)
Rewrite(p) ==
    /\ ~lg.exited
    /\ procs[p].pc = "done"
    /\ procs[p].ce # Nil
    /\ ~procs[p].second
    /\ procs[p].outcome \in {"returned", "panic"}
    /\ procs' = [procs EXCEPT ![p].pc = "write", ![p].second = TRUE, ![p].ev = <<>>,
                              ![p].outcome = "none", ![p].i = 0, ![p].n = 0,
                              ![p].err = <<>>]
    /\ UNCHANGED <<ctr, fs, late, tee, reg, sam, lg, handles, pool>>

ReuseNext == LogNext \/ \E p \in Procs : Rewrite(p)

SpecReuse == LogInit /\ [][ReuseNext]_vars

Kinds(ev) == [k \in DOMAIN ev |-> ev[k][1]]
CountOf(ev, kind) == Cardinality({k \in DOMAIN ev : ev[k][1] = kind})

\* C3: a second Write on a reference whose handle nobody borrowed since the
\* first Write returned it to the pool calls no core's Write, does not panic or exit, does not
\* put the handle into the pool, and reports the re-use to ErrorOutput and
\* syncs it when ErrorOutput is set.
C3_SecondWriteIsNoop ==
    \A p \in Procs :
        (procs[p].second /\ procs[p].pc # "write" /\ procs[p].sawIntact)
        => /\ procs[p].pc = "done"
           /\ procs[p].outcome = "returned"
           /\ procs[p].ev = IF procs[p].sawErrOut # Nil
                            THEN << <<"ReuseReport", procs[p].sawErrOut>>,
                                    <<"ErrSync", procs[p].sawErrOut>> >>
                            ELSE <<>>

\* A second Write on a handle that holds cores and an error output was made.
C3_Witness ==
    \E p \in Procs :
        /\ procs[p].second /\ procs[p].pc = "done" /\ procs[p].sawIntact
        /\ procs[p].sawErrOut # Nil
        /\ Len(handles[procs[p].ce].cores) > 0
        /\ handles[procs[p].ce].should = WriteThenPanic

\* C4: a call at Panic level that ends, ends in a panic, and one at Fatal
\* level in the exit of the process, after every collected core was written,
\* also when no core admitted the entry or a core's Write failed.
C4_TerminalAlways ==
    \A p \in Procs :
        procs[p].pc = "done"
        => /\ procs[p].ent.Level = PanicLevel => procs[p].outcome = "panic"
           /\ procs[p].ent.Level = FatalLevel => (procs[p].outcome = "exit" /\ lg.exited)
           /\ procs[p].ent.Level \in {PanicLevel, FatalLevel}
                 => /\ CountOf(procs[p].ev, "CoreWrite") = procs[p].n
                    /\ procs[p].ev[Len(procs[p].ev)][1] \in {"Panic", "Exit"}

\* A Panic call that the sampler dropped and no other core enabled panicked.
C4_Witness ==
    \E p \in Procs :
        /\ lg.core = LogCores[5]
        /\ procs[p].pc = "done" /\ procs[p].ent.Level = PanicLevel
        /\ procs[p].n = 0 /\ procs[p].outcome = "panic"

EvRank(e) ==
    CASE e[1] \in {"CoreWrite", "OutWrite", "OutSync"} -> 1
      [] e[1] \in {"ErrorReport", "ErrSync"} -> 2
      [] e[1] = "Put" -> 3
      [] e[1] \in {"Panic", "Exit"} -> 4

\* C5: in a Write the cores' Writes come first, then the error report, then
\* the return of the handle to the pool, then the panic or exit; when the
\* panic or exit is raised every collected core was written and the handle
\* is back in the pool (or already borrowed from it again).
C5_PutBeforeTerminal ==
    \A p \in Procs :
        /\ \A a, b \in DOMAIN procs[p].ev :
              a < b => EvRank(procs[p].ev[a]) <= EvRank(procs[p].ev[b])
        /\ (procs[p].pc = "terminal" \/ procs[p].outcome \in {"panic", "exit"})
              => /\ CountOf(procs[p].ev, "CoreWrite") = procs[p].n
                 /\ CountOf(procs[p].ev, "Put") = 1
                 /\ \/ pool[procs[p].ce] > 0
                    \/ \E q \in Procs \ {p} : procs[q].ce = procs[p].ce

\* A Fatal call wrote two cores, reported an error, returned the handle and exited.
C5_Witness ==
    \E p \in Procs :
        /\ procs[p].outcome = "exit" /\ procs[p].n = 2
        /\ procs[p].err # <<>>
        /\ CountOf(procs[p].ev, "ErrorReport") = 1

\* The goroutine borrowed a handle and has not yet returned it to the pool.
Holds(p) == procs[p].pc \in {"write", "cores", "put"} /\ ~procs[p].second

CoreWrites(ev) == SelectSeq(ev, LAMBDA e : e[1] = "CoreWrite")

\* C15: when every goroutine calls Write once on the handle it obtained, a
\* handle that a goroutine borrowed and has not yet returned to the pool is
\* not in the pool and not held by another goroutine, it still carries the
\* entry and the cores that goroutine stamped, and the cores' Writes made so
\* far are those of the stamped cores, in order, each with the stamped entry.
C15_ExclusiveHandle ==
    \A p \in Procs :
        Holds(p)
        => /\ pool[procs[p].ce] = 0
           /\ \A q \in Procs \ {p} : Holds(q) => procs[q].ce # procs[p].ce
           /\ handles[procs[p].ce].Entry = procs[p].ent
           /\ handles[procs[p].ce].cores = procs[p].stamped
           /\ CoreWrites(procs[p].ev)
                 = [k \in 1..CountOf(procs[p].ev, "CoreWrite") |->
                      <<"CoreWrite", procs[p].stamped[k].enc>>]
           /\ procs[p].pc = "cores" => CountOf(procs[p].ev, "CoreWrite") = procs[p].i - 1
           /\ \A k \in DOMAIN procs[p].ev :
                 procs[p].ev[k][1] = "OutWrite" => procs[p].ev[k][3] = procs[p].ent

\* Two goroutines are in their Writes at once, on different entries, and
\* each has written a core.
C15_Witness ==
    \E p, q \in Procs :
        /\ p # q /\ Holds(p) /\ Holds(q)
        /\ procs[p].ent.Level # procs[q].ent.Level
        /\ procs[p].pc = "cores" /\ procs[p].i > 1
        /\ procs[q].pc = "cores" /\ procs[q].i > 1

\* C16: a Write on a handle that its goroutine already returned to the pool
\* calls no core's Write and writes no entry of another goroutine, whoever
\* borrowed the handle in between.
C16_StaleWriteDetected ==
    \A p \in Procs :
        procs[p].second
        => /\ CountOf(procs[p].ev, "CoreWrite") = 0
           /\ \A k \in DOMAIN procs[p].ev :
                 procs[p].ev[k][1] = "OutWrite" => procs[p].ev[k][3] = procs[p].ent

\* A stale Write ran on a handle that another goroutine had borrowed since.
C16_Witness ==
    \E p \in Procs :
        /\ procs[p].second /\ procs[p].pc = "done" /\ ~procs[p].sawIntact
        /\ \E q \in Procs \ {p} : procs[q].ce = procs[p].ce

\* C24: a DPanic call that ended has panicked iff the Logger is in
\* development mode; in the other mode it borrowed no handle and made no
\* call when no core admitted the entry, and otherwise wrote every
\* collected core and returned with no terminal action.
C24_DPanicByMode ==
    \A p \in Procs :
        (procs[p].pc = "done" /\ procs[p].ent.Level = DPanicLevel)
        => /\ (procs[p].outcome = "panic") <=> lg.development
           /\ ~lg.development
                 => /\ procs[p].outcome = "returned"
                    /\ procs[p].should = WriteThenNoop
                    /\ IF procs[p].ce = Nil
                       THEN procs[p].ev = <<>>
                       ELSE /\ procs[p].n >= 1
                            /\ CountOf(procs[p].ev, "CoreWrite") = procs[p].n
           /\ lg.development
                 => /\ procs[p].ce # Nil
                    /\ CountOf(procs[p].ev, "CoreWrite") = procs[p].n
                    /\ procs[p].ev[Len(procs[p].ev)] = <<"Panic", procs[p].msg>>

\* In development mode a DPanic call wrote a core and panicked.
C24_Witness ==
    \E p \in Procs :
        /\ lg.development /\ procs[p].pc = "done"
        /\ procs[p].ent.Level = DPanicLevel
        /\ procs[p].n >= 1 /\ procs[p].outcome = "panic"


(***************************************************************************)
(* SpecTee: cores are combined with NewTee, and Write and Sync are called  *)
(* on them while some of their encoders and outputs fail.  SpecWith: cores *)
(* are derived with With, and written to.  Each unit records, besides its  *)
(* core, the fields given along its own derivation, per ioCore it writes   *)
(* to (bound), and the unit it was derived from (parent, 0 if none).  last *)
(* is the call in progress: what was called, with what, and what it        *)
(* returned.                                                               *)
(***************************************************************************)
MaxTees == 2
MaxTeeArgs == 2
MaxWiths == 3

TeeTable == 1
TeeFields == {<<"a">>, <<"b">>}
\* The Write calls made: the level of the entry and how the failing members fail.
TeeWrites == {<<InfoLevel, "encErr">>, <<PanicLevel, "writeErr">>, <<PanicLevel, "syncErr">>}

NoLast == [op |-> "none", unit |-> 0, args |-> <<>>, result |-> NewNopCore,
           ent |-> ZeroEntry, env |-> <<>>, err |-> <<>>, ev |-> <<>>]

\* The cores the units are built from; their encoders are at addresses 1 and 2.
TeeRoots ==
    { NewCore(1, 1, InfoLevel),
      NewSampler(NewCore(2, 2, ErrorLevel), 1, 1, 2, TeeTable),
      NewTee(<<NewCore(1, 1, InfoLevel),
               NewSampler(NewCore(2, 2, ErrorLevel), 1, 1, 2, TeeTable)>>) }

TeeInit ==
    /\ IdleSam /\ IdleLog /\ IdleReg /\ IdleCtr /\ IdleFs /\ IdleLate
    /\ \E root \in TeeRoots :
         tee = [units |-> << [core |-> root,
                              bound |-> [k \in DOMAIN Leaves(root) |-> <<>>],
                              parent |-> 0] >>,
                hp    |-> << <<>>, <<>> >>,
                last  |-> NoLast]

\* The sequences over S of length at most n.
SeqsUpTo(S, n) == UNION {[1..k -> S] : k \in 0..n}

RECURSIVE Flatten(_)
Flatten(ss) == IF ss = <<>> THEN <<>> ELSE Head(ss) \o Flatten(Tail(ss))

\* tee := NewTee(cores...), over cores built so far
TeeNewTee(args) ==
    /\ tee.last.op = "none"
    /\ Len(tee.units) <= MaxTees
    /\ LET cores == [i \in DOMAIN args |-> tee.units[args[i]].core]
           res   == NewTee(cores)
       IN  tee' = [tee EXCEPT
                     !.units = Append(@, [core |-> res,
                                          bound |-> Flatten([i \in DOMAIN args |-> tee.units[args[i]].bound]),
                                          parent |-> 0]),
                     !.last = [NoLast EXCEPT !.op = "NewTee", !.args = cores, !.result = res]]
    /\ UNCHANGED <<sam, logVars, reg, ctr, fs, late>>

\* child := units[u].core.With(fields)
TeeWith(u, fields) ==
    /\ tee.last.op = "none"
    /\ Len(tee.units) <= MaxWiths
    /\ LET r == CoreWith(tee.units[u].core, fields, tee.hp)
       IN  tee' = [tee EXCEPT
                     !.units = Append(@, [core |-> r.core,
                                          bound |-> [k \in DOMAIN tee.units[u].bound |->
                                                        tee.units[u].bound[k] \o fields],
                                          parent |-> u]),
                     !.hp = r.hp,
                     !.last = [NoLast EXCEPT !.op = "With", !.unit = u, !.result = r.core]]
    /\ UNCHANGED <<sam, logVars, reg, ctr, fs, late>>

\* What the encoders and outputs do during a call: those in F fail as kind.
EnvOf(F, kind) == [e \in DOMAIN tee.hp |-> IF e \in F THEN kind ELSE "ok"]

\* err := units[u].core.Write(ent, nil)
TeeWrite(u, lvl, F, kind) ==
    /\ tee.last.op = "none"
    /\ LET ent == NewEntry(lvl, 0, MsgA)
           r   == CoreWrite(tee.units[u].core, ent, <<>>, EnvOf(F, kind), tee.hp)
       IN  tee' = [tee EXCEPT !.last = [NoLast EXCEPT !.op = "Write", !.unit = u,
                                          !.ent = ent, !.env = EnvOf(F, kind),
                                          !.err = r.err, !.ev = r.ev]]
    /\ UNCHANGED <<sam, logVars, reg, ctr, fs, late>>

\* err := units[u].core.Sync()
TeeSync(u, F, kind) ==
    /\ tee.last.op = "none"
    /\ LET r == CoreSync(tee.units[u].core, EnvOf(F, kind))
       IN  tee' = [tee EXCEPT !.last = [NoLast EXCEPT !.op = "Sync", !.unit = u,
                                          !.env = EnvOf(F, kind), !.err = r.err, !.ev = r.ev]]
    /\ UNCHANGED <<sam, logVars, reg, ctr, fs, late>>

\* The caller has looked at what the call returned and goes on.
TeeReturn ==
    /\ tee.last.op # "none"
    /\ tee' = [tee EXCEPT !.last = NoLast]
    /\ UNCHANGED <<sam, logVars, reg, ctr, fs, late>>

TeeCall ==
    \E u \in DOMAIN tee.units :
        \E F \in SUBSET {Leaves(tee.units[u].core)[k].enc : k \in DOMAIN Leaves(tee.units[u].core)} :
            \/ \E w \in TeeWrites : TeeWrite(u, w[1], F, w[2])
            \/ TeeSync(u, F, "syncErr")

TeeNext ==
    \/ \E args \in SeqsUpTo(DOMAIN tee.units, MaxTeeArgs) : TeeNewTee(args)
    \/ TeeCall
    \/ TeeReturn

SpecTee == TeeInit /\ [][TeeNext]_vars

\* Writes that succeed, to see the fields each unit writes.
WithCall ==
    \E u \in DOMAIN tee.units : \E w \in TeeWrites : TeeWrite(u, w[1], {}, w[2])

WithNext ==
    \/ \E u \in DOMAIN tee.units : \E fields \in TeeFields : TeeWith(u, fields)
    \/ WithCall
    \/ TeeReturn

SpecWith == TeeInit /\ [][WithNext]_vars

\* What member i of the multiCore called last returns when the same call is
\* made on it alone.
MemberResult(i) ==
    LET m == tee.units[tee.last.unit].core.cores[i]
    IN  IF tee.last.op = "Write"
        THEN CoreWrite(m, tee.last.ent, <<>>, tee.last.env, tee.hp)
        ELSE CoreSync(m, tee.last.env)

\* The second component of the events of one kind in ev, in order.
Called(ev, kind) ==
    LET sel == SelectSeq(ev, LAMBDA e : e[1] = kind)
    IN  [k \in DOMAIN sel |-> sel[k][2]]

\* C6: a Write or Sync on a multiCore calls every member exactly once, in
\* member order, whichever members fail: every ioCore under it is written (or
\* its output synced) once, in order, the calls made are those of the members
\* one after the other, the error returned is nil exactly when no member
\* failed, and otherwise it holds the errors of all the failing members.
C6_AllMembersCalled ==
    (tee.last.op \in {"Write", "Sync"} /\ tee.units[tee.last.unit].core.kind = "multi")
    => LET mc  == tee.units[tee.last.unit].core
           lvs == Leaves(mc)
       IN  /\ tee.last.op = "Write"
                => Called(tee.last.ev, "CoreWrite") = [k \in DOMAIN lvs |-> lvs[k].enc]
           /\ tee.last.op = "Sync"
                => Called(tee.last.ev, "OutSync") = [k \in DOMAIN lvs |-> lvs[k].out]
           /\ tee.last.ev = Flatten([i \in DOMAIN mc.cores |-> MemberResult(i).ev])
           /\ (tee.last.err = <<>>) <=> (\A i \in DOMAIN mc.cores : MemberResult(i).err = <<>>)
           /\ \A i \in DOMAIN mc.cores : Range(MemberResult(i).err) \subseteq Range(tee.last.err)
           /\ Len(tee.last.err) = Len(Flatten([i \in DOMAIN mc.cores |-> MemberResult(i).err]))

\* A Write on a tee whose first and last members both fail.
C6_Witness ==
    /\ tee.last.op = "Write"
    /\ tee.units[tee.last.unit].core.kind = "multi"
    /\ Len(tee.units[tee.last.unit].core.cores) = 2
    /\ MemberResult(1).err # <<>>
    /\ MemberResult(2).err # <<>>
    /\ Len(tee.last.err) = 2

\* Whether a core does what the no-op core does: no level is enabled, Check
\* adds nothing to the CheckedEntry, With gives the core itself, and Write and
\* Sync do nothing and return nil.
BehavesAsNop(c) ==
    /\ \A lvl \in Levels : ~Enabled(c, lvl)
    /\ \A lvl \in Levels :
          LET st == Check(c, NewEntry(lvl, 0, MsgA), FreshSt(<<>>))
          IN  st.ce = Nil /\ st.handles = FreshSt(<<>>).handles /\ st.pool = FreshSt(<<>>).pool
    /\ \A fields \in TeeFields : CoreWith(c, fields, tee.hp) = [core |-> c, hp |-> tee.hp]
    /\ \A lvl \in Levels, e \in Outcomes :
          CoreWrite(c, NewEntry(lvl, 0, MsgA), <<>>, [a \in DOMAIN tee.hp |-> e], tee.hp)
              = [err |-> <<>>, ev |-> <<>>]
    /\ \A e \in Outcomes : CoreSync(c, [a \in DOMAIN tee.hp |-> e]) = [err |-> <<>>, ev |-> <<>>]

\* C7: NewTee of no core behaves as the no-op core, NewTee of one core is
\* that core itself, and NewTee of two or more cores is a fan-out over all of
\* them, in the order given.
C7_NewTeeByCount ==
    tee.last.op = "NewTee"
    => LET args == tee.last.args
           res  == tee.last.result
       IN  /\ Len(args) = 0 => BehavesAsNop(res)
           /\ Len(args) = 1 => res = args[1]
           /\ Len(args) >= 2 => /\ res.kind = "multi"
                                /\ res.cores = args
                                /\ Leaves(res) = Flatten([i \in DOMAIN args |-> Leaves(args[i])])

\* NewTee was called with no core, and now with the first core and its result.
C7_Witness ==
    /\ tee.last.op = "NewTee"
    /\ Len(tee.last.args) = 2
    /\ tee.last.args[1] = tee.units[1].core
    /\ tee.last.args[2] = NewNopCore
    /\ tee.last.args[1] # tee.last.args[2]
    /\ \E u \in DOMAIN tee.units : u > 1 /\ tee.units[u].core = NewNopCore

\* The fields bound to the encoder of each ioCore of unit u.
BoundFields(u) ==
    LET lvs == Leaves(tee.units[u].core)
    IN  [k \in DOMAIN lvs |-> tee.hp[lvs[k].enc]]

\* C8: With never changes the core it is called on: at any time the fields
\* bound to each unit (an ioCore, a tee, a sampler or a core derived from
\* one) are exactly the fields given along its own derivation.
C8_WithKeepsParent ==
    /\ \A u \in DOMAIN tee.units : BoundFields(u) = tee.units[u].bound
    /\ tee.last.op = "Write"
          => \A k \in DOMAIN tee.last.ev :
                tee.last.ev[k][1] = "OutWrite"
                    => tee.last.ev[k][4] \in Range(tee.units[tee.last.unit].bound)

\* A tee over an ioCore and a sampler has two children with different fields,
\* and one of the children has a child.
C8_Witness ==
    /\ tee.units[1].core.kind = "multi"
    /\ \E v, w, x \in DOMAIN tee.units :
          /\ tee.units[v].parent = 1 /\ tee.units[w].parent = 1
          /\ tee.units[v].bound # tee.units[w].bound
          /\ tee.units[x].parent = v
          /\ tee.units[x].bound # tee.units[v].bound


(***************************************************************************)
(* SpecShare: samplers are derived from a sampler with With, and entries   *)
(* are checked through the sampler and through those derived from it while *)
(* the clock advances.  Here tee holds                                     *)
(*   units   the samplers, the first built by NewSampler; for each, the    *)
(*           fields given along its derivation and the unit it was derived *)
(*           from (0 for the first)                                        *)
(*   hp      the encoders                                                  *)
(*   counts  the counter tables, by address                                *)
(*   single  the counter table of one sampler, built as the first, that    *)
(*           is given every entry checked                                  *)
(*   last    the Check in progress: the unit, the entry, the cores of the  *)
(*           handle returned (admitted tells whether there is one), the    *)
(*           same for the single sampler, and the count the unit used      *)
(***************************************************************************)
MaxShareWiths == 2
MaxShareCalls == 2

ShareTables == 1..(MaxShareWiths + 1)
ShareLevels == {DebugLevel, InfoLevel}
ShareBuckets == {CountersGet(l, MsgA) : l \in ShareLevels}
ShareFirsts == {1, 2}

NoShareCall == [op |-> "none", unit |-> 0, ent |-> ZeroEntry, admitted |-> FALSE,
                cores |-> <<>>, single |-> FALSE, n |-> 0]

\* newCounters
NewCounters == [b \in ShareBuckets |-> ZeroCounter]

ShareInit ==
    /\ IdleSam /\ IdleLog /\ IdleReg /\ IdleCtr /\ IdleFs /\ IdleLate
    /\ \E first \in ShareFirsts :
         tee = [units  |-> << [core |-> NewSampler(NewCore(1, 1, InfoLevel), 1, first, 2, 1),
                               bound |-> <<>>, parent |-> 0] >>,
                hp     |-> << <<>> >>,
                counts |-> [t \in ShareTables |-> NewCounters],
                single |-> [t \in {1} |-> NewCounters],
                now    |-> 0, calls |-> 0, via |-> {},
                last   |-> NoShareCall]

\* child := units[u].core.With(fields)
ShareWith(u, fields) ==
    /\ tee.last.op = "none"
    /\ Len(tee.units) <= MaxShareWiths
    /\ LET r == CoreWith(tee.units[u].core, fields, tee.hp)
       IN  tee' = [tee EXCEPT
                     !.units = Append(@, [core |-> r.core,
                                          bound |-> tee.units[u].bound \o fields,
                                          parent |-> u]),
                     !.hp = r.hp]
    /\ UNCHANGED <<sam, logVars, reg, ctr, fs, late>>

\* ce := units[u].core.Check(ent, nil); the single sampler is given the entry too
ShareCheck(u, lvl) ==
    /\ tee.last.op = "none"
    /\ tee.calls < MaxShareCalls
    /\ LET ent == NewEntry(lvl, tee.now, MsgA)
           c   == tee.units[u].core
           st  == Check(c, ent, FreshSt(tee.counts))
           one == Check(tee.units[1].core, ent, FreshSt(tee.single))
       IN  tee' = [tee EXCEPT
                     !.calls = @ + 1,
                     !.counts = st.counts,
                     !.single = one.counts,
                     !.via = IF Enabled(c, lvl) THEN @ \cup {u} ELSE @,
                     !.last = [op |-> "Check", unit |-> u, ent |-> ent,
                               admitted |-> st.ce # Nil,
                               cores |-> IF st.ce # Nil THEN st.handles[st.ce].cores ELSE <<>>,
                               single |-> one.ce # Nil,
                               n |-> st.counts[c.counts][CountersGet(lvl, MsgA)].counter]]
    /\ UNCHANGED <<sam, logVars, reg, ctr, fs, late>>

\* The clock advances.
ShareTick ==
    /\ tee.last.op = "none"
    /\ tee.now < MaxTime
    /\ tee' = [tee EXCEPT !.now = @ + 1]
    /\ UNCHANGED <<sam, logVars, reg, ctr, fs, late>>

\* The Check returns.
ShareReturn ==
    /\ tee.last.op # "none"
    /\ tee' = [tee EXCEPT !.last = NoShareCall]
    /\ UNCHANGED <<sam, logVars, reg, ctr, fs, late>>

ShareNext ==
    \/ \E u \in DOMAIN tee.units : \E fields \in TeeFields : ShareWith(u, fields)
    \/ \E u \in DOMAIN tee.units : \E lvl \in ShareLevels : ShareCheck(u, lvl)
    \/ ShareTick
    \/ ShareReturn

SpecShare == ShareInit /\ [][ShareNext]_vars

\* C33: a sampler derived with With wraps an ioCore of its own, whose encoder
\* holds the parent's fields and the new ones, has the tick, first and
\* thereafter of its parent and counts in its parent's table; whichever of
\* the samplers an entry is checked through, it is admitted exactly when one
\* sampler given all the entries would admit it, and the table is that
\* sampler's table.
C33_ChildSharesCounts ==
    /\ \A u \in DOMAIN tee.units :
          LET c == tee.units[u].core
              q == tee.units[u].parent
          IN  /\ c.kind = "sampler" /\ c.core.kind = "io"
              /\ tee.hp[c.core.enc] = tee.units[u].bound
              /\ q # 0
                   => LET d == tee.units[q].core
                      IN  /\ c.tick = d.tick /\ c.first = d.first
                          /\ c.thereafter = d.thereafter
                          /\ c.counts = d.counts
                          /\ c.core.enc # d.core.enc
                          /\ [c.core EXCEPT !.enc = d.core.enc] = d.core
    /\ tee.counts[1] = tee.single[1]
    /\ tee.last.op = "Check"
          => /\ tee.last.admitted = tee.last.single
             /\ tee.last.admitted => tee.last.cores = <<tee.units[tee.last.unit].core.core>>

\* The sampler admits one entry per window at first; an Info entry was
\* admitted through the sampler, and the next one, in the same window and
\* checked through a sampler derived from it, is dropped as the second.
C33_Witness ==
    /\ tee.last.op = "Check" /\ tee.last.unit > 1
    /\ tee.units[1].core.first = 1
    /\ tee.calls = 2 /\ tee.via = {1, tee.last.unit}
    /\ ~tee.last.admitted /\ tee.last.n = 2

(***************************************************************************)
(* SpecRegistry: goroutines call RegisterSink and newSink concurrently on  *)
(* the registry that init left.  Each call is a sequence of steps: taking  *)
(* the mutex, the reads and the write of the map, releasing the mutex.     *)
(*   factories  _sinkFactories                                             *)
(*   mu         _sinkMutex: the goroutine holding it for writing (0 if     *)
(*              none) and those holding it for reading                     *)
(*   g          per goroutine, its call: where it is (pc), the arguments,  *)
(*              what it read and what it returned (res); before and after  *)
(*              are the map when RegisterSink took and released the mutex, *)
(*              raced tells that the call began during another goroutine's *)
(*              RegisterSink of the same scheme                            *)
(*              for newSink, raw is the scheme url.Parse found, inv the    *)
(*              factory calls made, fout what the factory returned and ret *)
(*              what newSink returned                                      *)
(*   calls      the number of calls made                                   *)
(*   won        per scheme, the factories of the RegisterSink calls that   *)
(*              returned nil, and okCount, how many did                    *)
(***************************************************************************)
MaxRegCalls == 3
Goroutines == {1, 2, 3}

SchemeEmpty == <<>>
SchemeFILE == <<70, 73, 76, 69>>
SchemeX == <<120>>
SchemeUpperX == <<88>>
SchemeDigit == <<57, 120>>
SchemeBadByte == <<120, 95>>
\* The schemes the concurrent RegisterSink calls are made with.
RegSchemes == {schemeFile, SchemeFILE, SchemeX, SchemeUpperX}
\* u.Scheme of the URLs given to newSink
SinkSchemes == {SchemeEmpty, schemeFile, SchemeX}
NewSchemes == {SchemeX}

IdleG == [pc |-> "idle", op |-> "none", scheme |-> <<>>, factory |-> NoFactory,
          normalized |-> <<>>, res |-> "none", seen |-> NoFactory,
          before |-> <<>>, after |-> <<>>, raced |-> FALSE,
          raw |-> <<>>, inv |-> <<>>, fout |-> "none", ret |-> <<>>]

RegInit ==
    /\ IdleSam /\ IdleLog /\ IdleTee /\ IdleCtr /\ IdleFs /\ IdleLate
    /\ reg = [factories |-> resetSinkRegistry,
              mu        |-> [w |-> 0, r |-> {}],
              g         |-> [p \in Goroutines |-> IdleG],
              calls     |-> 0,
              won       |-> [n \in NewSchemes |-> {}],
              okCount   |-> [n \in NewSchemes |-> 0]]

\* A goroutine between two calls.
Between(p) == reg.g[p].pc \in {"idle", "done"}

\* go RegisterSink(scheme, factory), with a factory of the caller's own
RegCall(p, scheme) ==
    /\ Between(p)
    /\ reg.calls < MaxRegCalls
    /\ reg' = [reg EXCEPT
                 !.calls = @ + 1,
                 !.g[p] = [IdleG EXCEPT
                             !.pc = "lock", !.op = "RegisterSink", !.scheme = scheme,
                             !.factory = 10 * p + reg.calls,
                             !.raced = \E q \in Goroutines \ {p} :
                                           /\ ~Between(q)
                                           /\ reg.g[q].op = "RegisterSink"
                                           /\ ToLower(reg.g[q].scheme) = ToLower(scheme)]]
    /\ UNCHANGED <<sam, logVars, tee, ctr, fs, late>>

\* _sinkMutex.Lock()
RegLock(p) ==
    /\ reg.g[p].pc = "lock"
    /\ CanLock(reg.mu)
    /\ reg' = [reg EXCEPT !.mu.w = p, !.g[p].pc = "check", !.g[p].before = reg.factories]
    /\ UNCHANGED <<sam, logVars, tee, ctr, fs, late>>

\* the checks of RegisterSink, up to the lookup of the normalized scheme
RegCheck(p) ==
    /\ reg.g[p].pc = "check"
    /\ LET scheme == reg.g[p].scheme
           n      == normalizeScheme(scheme)
       IN  IF scheme = <<>>
           THEN reg' = [reg EXCEPT !.g[p].res = "empty", !.g[p].pc = "unlock"]
           ELSE IF n.err # "nil"
           THEN reg' = [reg EXCEPT !.g[p].res = "invalid", !.g[p].pc = "unlock"]
           ELSE IF Registered(reg.factories, n.s)
           THEN reg' = [reg EXCEPT !.g[p].res = "duplicate", !.g[p].pc = "unlock",
                                   !.g[p].normalized = n.s]
           ELSE reg' = [reg EXCEPT !.g[p].pc = "insert", !.g[p].normalized = n.s]
    /\ UNCHANGED <<sam, logVars, tee, ctr, fs, late>>

\* _sinkFactories[normalized] = factory; return nil
RegInsert(p) ==
    /\ reg.g[p].pc = "insert"
    /\ reg' = [reg EXCEPT
                 !.factories = MapPut(@, reg.g[p].normalized, reg.g[p].factory),
                 !.g[p].res = "ok", !.g[p].pc = "unlock"]
    /\ UNCHANGED <<sam, logVars, tee, ctr, fs, late>>

\* the deferred _sinkMutex.Unlock(), and the return
RegUnlock(p) ==
    /\ reg.g[p].pc = "unlock"
    /\ LET n  == reg.g[p].normalized
           ok == reg.g[p].res = "ok" /\ n \in NewSchemes
       IN  reg' = [reg EXCEPT
                     !.mu.w = 0,
                     !.g[p].pc = "done", !.g[p].after = reg.factories,
                     !.won = IF ok THEN [@ EXCEPT ![n] = @ \cup {reg.g[p].factory}] ELSE @,
                     !.okCount = IF ok THEN [@ EXCEPT ![n] = @ + 1] ELSE @]
    /\ UNCHANGED <<sam, logVars, tee, ctr, fs, late>>

\* go newSink(rawURL): the URL is parsed, an empty scheme stands for "file".
\* parsed tells whether url.Parse accepted rawURL, scheme is the scheme it found.
SinkCall(p, parsed, scheme) ==
    /\ Between(p)
    /\ reg.calls < MaxRegCalls
    /\ reg' = [reg EXCEPT
                 !.calls = @ + 1,
                 !.g[p] = IF parsed
                          THEN [IdleG EXCEPT
                                  !.pc = "rlock", !.op = "newSink", !.raw = scheme,
                                  !.scheme = SinkScheme(scheme)]
                          ELSE [IdleG EXCEPT
                                  !.pc = "done", !.op = "newSink", !.res = "parse",
                                  !.ret = <<"can't parse">>]]
    /\ UNCHANGED <<sam, logVars, tee, ctr, fs, late>>

\* _sinkMutex.RLock()
SinkRLock(p) ==
    /\ reg.g[p].pc = "rlock"
    /\ CanRLock(reg.mu)
    /\ reg' = [reg EXCEPT !.mu.r = @ \cup {p}, !.g[p].pc = "lookup",
                           !.g[p].before = reg.factories]
    /\ UNCHANGED <<sam, logVars, tee, ctr, fs, late>>

\* factory, ok := _sinkFactories[u.Scheme]
SinkLookup(p) ==
    /\ reg.g[p].pc = "lookup"
    /\ reg' = [reg EXCEPT
                 !.g[p].seen = IF reg.g[p].scheme \in DOMAIN reg.factories
                               THEN reg.factories[reg.g[p].scheme] ELSE NoFactory,
                 !.g[p].pc = "runlock"]
    /\ UNCHANGED <<sam, logVars, tee, ctr, fs, late>>

\* _sinkMutex.RUnlock(), then errSinkNotFound{u.Scheme} if !ok
SinkRUnlock(p) ==
    /\ reg.g[p].pc = "runlock"
    /\ reg' = [reg EXCEPT
                 !.mu.r = @ \ {p},
                 !.g[p].pc = IF reg.g[p].seen = NoFactory THEN "done" ELSE "factory",
                 !.g[p].res = IF reg.g[p].seen = NoFactory THEN "notfound" ELSE "none",
                 !.g[p].ret = IF reg.g[p].seen = NoFactory
                              THEN <<"errSinkNotFound", reg.g[p].scheme>> ELSE <<>>]
    /\ UNCHANGED <<sam, logVars, tee, ctr, fs, late>>

\* return factory(u): the factory gives a sink or an error (out)
SinkFactory(p, out) ==
    /\ reg.g[p].pc = "factory"
    /\ reg' = [reg EXCEPT
                 !.g[p].pc = "done",
                 !.g[p].res = "factory",
                 !.g[p].inv = Append(@, <<reg.g[p].seen, reg.g[p].scheme>>),
                 !.g[p].fout = out,
                 !.g[p].ret = <<"factory", out>>]
    /\ UNCHANGED <<sam, logVars, tee, ctr, fs, late>>

RegNext ==
    \E p \in Goroutines :
        \/ \E scheme \in RegSchemes : RegCall(p, scheme)
        \/ RegLock(p)
        \/ RegCheck(p)
        \/ RegInsert(p)
        \/ RegUnlock(p)
        \/ \E parsed \in BOOLEAN, scheme \in SinkSchemes :
              (parsed \/ scheme = <<>>) /\ SinkCall(p, parsed, scheme)
        \/ SinkRLock(p)
        \/ SinkLookup(p)
        \/ SinkRUnlock(p)
        \/ \E out \in FactoryResults : SinkFactory(p, out)

SpecRegistry == RegInit /\ [][RegNext]_vars

\* The RegisterSink calls that have returned.
Returned(p) == reg.g[p].op = "RegisterSink" /\ reg.g[p].pc = "done"

\* Whether a scheme had a factory in the map m, whatever its case.
HadFactory(m, scheme) == \E n \in DOMAIN m : n = ToLower(scheme)

\* C9: a RegisterSink for a scheme that already has a factory, "file" and
\* "FILE" among them, returns an error and leaves the registry as it was; and
\* no step ever replaces or removes the factory of a scheme.
C9_NoReregistration ==
    /\ [](\A p \in Goroutines :
            (Returned(p) /\ HadFactory(reg.g[p].before, reg.g[p].scheme))
                => reg.g[p].res # "ok" /\ reg.g[p].after = reg.g[p].before)
    /\ [](\A p \in Goroutines :
            (Returned(p) /\ reg.g[p].scheme \in {schemeFile, SchemeFILE})
                => reg.g[p].res = "duplicate")
    /\ [][\A n \in DOMAIN reg.factories :
            n \in DOMAIN reg'.factories /\ reg'.factories[n] = reg.factories[n]]_vars

\* "FILE" was refused, and so was "X" after another goroutine registered "x".
C9_Witness ==
    \E p, q, o \in Goroutines :
        /\ Returned(p) /\ reg.g[p].scheme = SchemeFILE /\ reg.g[p].res = "duplicate"
        /\ Returned(q) /\ reg.g[q].scheme = SchemeUpperX /\ reg.g[q].res = "duplicate"
        /\ Returned(o) /\ reg.g[o].scheme = SchemeX /\ reg.g[o].res = "ok"
        /\ reg.factories[SchemeX] = reg.g[o].factory

\* C11: a newSink whose URL parses looks the scheme up, "file" for an empty
\* one: when the scheme is registered it calls that scheme's factory, and no
\* other, once with the URL and returns what the factory returned; when it is
\* not, it calls no factory and returns the not-found error naming the scheme.
C11_ResolvesByScheme ==
    \A p \in Goroutines :
        (reg.g[p].op = "newSink" /\ reg.g[p].res # "parse")
        => LET g   == reg.g[p]
               key == IF g.raw = <<>> THEN schemeFile ELSE g.raw
           IN  /\ Len(g.inv) <= 1
               /\ g.pc = "done"
                     => IF key \in DOMAIN g.before
                        THEN /\ g.inv = << <<g.before[key], key>> >>
                             /\ g.fout \in FactoryResults
                             /\ g.ret = <<"factory", g.fout>>
                        ELSE /\ g.inv = <<>>
                             /\ g.ret = <<"errSinkNotFound", key>>
               /\ (g.pc = "done" /\ g.raw = <<>>) => g.inv = << <<newFileSink, schemeFile>> >>

\* A newSink for "x" called the factory a RegisterSink had registered for it
\* and returned its sink, and a newSink without a scheme called newFileSink.
C11_Witness ==
    \E p, q \in Goroutines :
        /\ reg.g[p].op = "newSink" /\ reg.g[p].pc = "done" /\ reg.g[p].raw = SchemeX
        /\ Len(reg.g[p].inv) = 1
        /\ reg.g[p].inv[1][1] \in reg.won[SchemeX]
        /\ reg.g[p].ret = <<"factory", "sink">>
        /\ reg.g[q].op = "newSink" /\ reg.g[q].pc = "done" /\ reg.g[q].raw = <<>>
        /\ reg.g[q].inv = << <<newFileSink, schemeFile>> >>

\* C10: of the RegisterSink calls made concurrently for one new scheme
\* exactly one returns nil and the others the already-registered error, the
\* factory in the registry is the one of the call that returned nil, and a
\* newSink for the scheme finds no factory or that one.
C10_OneWinner ==
    \A n \in NewSchemes :
        /\ reg.okCount[n] <= 1
        /\ \A p \in Goroutines :
              (Returned(p) /\ reg.g[p].scheme # <<>> /\ ToLower(reg.g[p].scheme) = n)
                  => /\ reg.g[p].res \in {"ok", "duplicate"}
                     /\ reg.okCount[n] = 1
                     /\ n \in DOMAIN reg.factories /\ reg.won[n] = {reg.factories[n]}
                     /\ reg.g[p].res = "ok" => reg.won[n] = {reg.g[p].factory}
        /\ \A p \in Goroutines :
              (reg.g[p].op = "newSink" /\ reg.g[p].scheme = n)
                  => reg.g[p].seen = NoFactory \/ reg.g[p].seen \in reg.won[n]

\* Two RegisterSink calls for "x" and "X" overlapped: one returned nil, the
\* other the error, and a newSink for "x" got the factory of the first.
C10_Witness ==
    \E p, q, o \in Goroutines :
        /\ Returned(p) /\ reg.g[p].res = "ok" /\ reg.g[p].normalized = SchemeX
        /\ Returned(q) /\ reg.g[q].res = "duplicate" /\ reg.g[q].normalized = SchemeX
        /\ reg.g[p].raced \/ reg.g[q].raced
        /\ reg.g[o].op = "newSink" /\ reg.g[o].pc = "done"
        /\ reg.g[o].seen = reg.g[p].factory

(***************************************************************************)
(* SpecRegister: one goroutine calls RegisterSink, one call after the      *)
(* other, with schemes of every shape: all the byte strings up to a length *)
(* over a few bytes, and some named ones.                                  *)
(***************************************************************************)
MaxSchemeLen == 2
MaxSeqCalls == 2

\* 'a', 'Z', '3', '_', '.'
SchemeBytes == {97, 90, 51, 95, 46}
\* "3ab", "a_b", "a.b+c-9"
Scheme3ab == <<51, 97, 98>>
SchemeA_b == <<97, 95, 98>>
SchemeDots == <<97, 46, 98, 43, 99, 45, 57>>
\* Bytes next to the ranges: "`a", "{a", "@", "[", "a/", "a:", "a-", "a+"
SchemesAtEdges ==
    {<<96, 97>>, <<123, 97>>, <<64>>, <<91>>, <<97, 47>>, <<97, 58>>, <<97, 45>>, <<97, 43>>}
AllSchemes ==
    SeqsUpTo(SchemeBytes, MaxSchemeLen)
        \cup {Scheme3ab, SchemeA_b, SchemeDots, schemeFile, SchemeFILE} \cup SchemesAtEdges

RegisterNext ==
    \/ \E scheme \in AllSchemes : reg.calls < MaxSeqCalls /\ RegCall(1, scheme)
    \/ RegLock(1)
    \/ RegCheck(1)
    \/ RegInsert(1)
    \/ RegUnlock(1)

SpecRegister == RegInit /\ [][RegisterNext]_vars

\* Letters, and the bytes a scheme may have after its first.
IsLetter(c) == c \in 65..90 \/ c \in 97..122
IsSchemeTail(c) == IsLetter(c) \/ c \in 48..57 \/ c \in {46, 43, 45}
WellFormed(scheme) ==
    /\ scheme # <<>>
    /\ IsLetter(scheme[1])
    /\ \A i \in 2..Len(scheme) : IsSchemeTail(scheme[i])

\* C12: RegisterSink refuses the empty scheme and every scheme that does not
\* start with a letter or has a later byte that is no letter, digit, '.', '+'
\* or '-' (case ignored), "3ab" and "a_b" among them; a refused call returns
\* an error and leaves the registry as it was; any other scheme, "a.b+c-9"
\* among them, is accepted unless it is registered already, and is then stored
\* under its lower-cased form with the caller's factory.
C12_SchemeValidation ==
    Returned(1)
    => LET g     == reg.g[1]
           lower == ToLower(g.scheme)
       IN  /\ g.res \in {"ok", "empty", "invalid", "duplicate"}
           /\ g.res = "empty" <=> g.scheme = <<>>
           /\ g.res \in {"empty", "invalid"} <=> ~WellFormed(g.scheme)
           /\ g.res = "ok" <=> (WellFormed(g.scheme) /\ lower \notin DOMAIN g.before)
           /\ g.res # "ok" => g.after = g.before /\ reg.factories = g.before
           /\ g.res = "ok"
                => /\ DOMAIN g.after = DOMAIN g.before \cup {lower}
                   /\ g.after[lower] = g.factory
                   /\ \A n \in DOMAIN g.before : g.after[n] = g.before[n]
                   /\ reg.factories = g.after
           /\ g.scheme \in {Scheme3ab, SchemeA_b} => g.res = "invalid"
           /\ g.scheme = SchemeDots => g.res \in {"ok", "duplicate"}

\* "Za" was registered under "za", and then "a_b" was refused.
C12_Witness ==
    /\ Returned(1)
    /\ reg.g[1].scheme = SchemeA_b /\ reg.g[1].res = "invalid"
    /\ <<122, 97>> \in DOMAIN reg.factories
    /\ <<90, 97>> \notin DOMAIN reg.factories
    /\ reg.factories = reg.g[1].before

(***************************************************************************)
(* SpecNested: goroutines call RegisterSink and newSink, and the factories *)
(* that newSink invokes may themselves call RegisterSink or newSink.  Each *)
(* goroutine has a stack of calls, the innermost last; a call is a frame   *)
(* with its operation, its position (pc), its arguments and the factory it *)
(* looked up (seen).                                                       *)
(*   factories  _sinkFactories                                             *)
(*   mu         _sinkMutex                                                 *)
(*   g          per goroutine, the stack, what its last finished call      *)
(*              returned (res) and how many of its calls finished while    *)
(*              nested in a factory (nested)                               *)
(*   calls      the number of calls the goroutines made themselves         *)
(* The scheduler runs every goroutine that can take a step.                *)
(***************************************************************************)
MaxNestedCalls == 3
NestedProcs == {1, 2}

SchemeY == <<121>>
\* The factories a caller registers: one that first registers newFileSink
\* for the scheme "y", one that first opens a file sink.
RegisteringFactory == 1
OpeningFactory == 2
UserFactories == {RegisteringFactory, OpeningFactory}
\* The schemes of the RegisterSink calls: accepted, refused as empty, as
\* invalid and as registered already.
NestedRegSchemes == {SchemeX, SchemeEmpty, SchemeBadByte, schemeFile}
NestedSinkSchemes == {SchemeEmpty, SchemeX, SchemeY}

NestedFrame(op, pc, scheme, factory) ==
    [op |-> op, pc |-> pc, scheme |-> scheme, factory |-> factory,
     seen |-> NoFactory, res |-> "none"]

NestedInit ==
    /\ IdleSam /\ IdleLog /\ IdleTee /\ IdleCtr /\ IdleFs /\ IdleLate
    /\ reg = [factories |-> resetSinkRegistry,
              mu        |-> [w |-> 0, r |-> {}],
              g         |-> [p \in NestedProcs |->
                               [stack |-> <<>>, res |-> "none", nested |-> 0]],
              calls     |-> 0]

Stack(p) == reg.g[p].stack
Top(p) == Stack(p)[Len(Stack(p))]
At(p, op, pc) == Stack(p) # <<>> /\ Top(p).op = op /\ Top(p).pc = pc
SetTop(stack, frame) == [stack EXCEPT ![Len(stack)] = frame]
\* The innermost call returns res to its caller.
Pop(g, res) ==
    [stack  |-> SubSeq(g.stack, 1, Len(g.stack) - 1),
     res    |-> res,
     nested |-> IF Len(g.stack) > 1 THEN g.nested + 1 ELSE g.nested]

\* go RegisterSink(scheme, factory)
NestedRegCall(p, scheme, factory) ==
    /\ Stack(p) = <<>>
    /\ reg.calls < MaxNestedCalls
    /\ reg' = [reg EXCEPT
                 !.calls = @ + 1,
                 !.g[p].stack = <<NestedFrame("RegisterSink", "lock", scheme, factory)>>]
    /\ UNCHANGED <<sam, logVars, tee, ctr, fs, late>>

\* go newSink(rawURL): a URL that does not parse is refused at once
NestedSinkCall(p, parsed, scheme) ==
    /\ Stack(p) = <<>>
    /\ reg.calls < MaxNestedCalls
    /\ reg' = [reg EXCEPT
                 !.calls = @ + 1,
                 !.g[p] = IF parsed
                          THEN [@ EXCEPT !.stack = <<NestedFrame("newSink", "rlock",
                                                       SinkScheme(scheme), NoFactory)>>]
                          ELSE [@ EXCEPT !.res = "parse"]]
    /\ UNCHANGED <<sam, logVars, tee, ctr, fs, late>>

\* _sinkMutex.Lock()
NestedLock(p) ==
    /\ At(p, "RegisterSink", "lock")
    /\ CanLock(reg.mu)
    /\ reg' = [reg EXCEPT !.mu.w = p,
                           !.g[p].stack = SetTop(@, [Top(p) EXCEPT !.pc = "body"])]
    /\ UNCHANGED <<sam, logVars, tee, ctr, fs, late>>

\* the body of RegisterSink, to one of its four returns
NestedRegister(p) ==
    /\ At(p, "RegisterSink", "body")
    /\ LET f   == Top(p)
           n   == normalizeScheme(f.scheme)
           res == IF f.scheme = <<>> THEN "empty"
                  ELSE IF n.err # "nil" THEN "invalid"
                  ELSE IF Registered(reg.factories, n.s) THEN "duplicate"
                  ELSE "ok"
       IN  reg' = [reg EXCEPT
                     !.factories = IF res = "ok" THEN MapPut(@, n.s, f.factory) ELSE @,
                     !.g[p].stack = SetTop(@, [f EXCEPT !.pc = "unlock", !.res = res])]
    /\ UNCHANGED <<sam, logVars, tee, ctr, fs, late>>

\* the deferred _sinkMutex.Unlock(), and the return
NestedUnlock(p) ==
    /\ At(p, "RegisterSink", "unlock")
    /\ reg' = [reg EXCEPT !.mu = Unlock(@), !.g[p] = Pop(@, Top(p).res)]
    /\ UNCHANGED <<sam, logVars, tee, ctr, fs, late>>

\* _sinkMutex.RLock()
NestedRLock(p) ==
    /\ At(p, "newSink", "rlock")
    /\ CanRLock(reg.mu)
    /\ reg' = [reg EXCEPT !.mu.r = @ \cup {p},
                           !.g[p].stack = SetTop(@, [Top(p) EXCEPT !.pc = "lookup"])]
    /\ UNCHANGED <<sam, logVars, tee, ctr, fs, late>>

\* factory, ok := _sinkFactories[u.Scheme]
NestedLookup(p) ==
    /\ At(p, "newSink", "lookup")
    /\ LET f == Top(p)
       IN  reg' = [reg EXCEPT
                     !.g[p].stack =
                         SetTop(@, [f EXCEPT !.pc = "runlock",
                                             !.seen = IF f.scheme \in DOMAIN reg.factories
                                                      THEN reg.factories[f.scheme]
                                                      ELSE NoFactory])]
    /\ UNCHANGED <<sam, logVars, tee, ctr, fs, late>>

\* _sinkMutex.RUnlock(), then errSinkNotFound{u.Scheme} if !ok
NestedRUnlock(p) ==
    /\ At(p, "newSink", "runlock")
    /\ reg' = [reg EXCEPT
                 !.mu = RUnlock(@, p),
                 !.g[p] = IF Top(p).seen = NoFactory
                          THEN Pop(@, "notfound")
                          ELSE [@ EXCEPT !.stack = SetTop(@, [Top(p) EXCEPT !.pc = "factory"])]]
    /\ UNCHANGED <<sam, logVars, tee, ctr, fs, late>>

\* factory(u) begins: a factory of the caller's first calls RegisterSink or
\* newSink, newFileSink calls neither.
NestedFactory(p) ==
    /\ At(p, "newSink", "factory")
    /\ LET f     == Top(p)
           inner == IF f.seen = RegisteringFactory
                    THEN NestedFrame("RegisterSink", "lock", SchemeY, newFileSink)
                    ELSE NestedFrame("newSink", "rlock", schemeFile, NoFactory)
       IN  reg' = [reg EXCEPT
                     !.g[p].stack =
                         IF f.seen \in UserFactories
                         THEN Append(SetTop(@, [f EXCEPT !.pc = "built"]), inner)
                         ELSE SetTop(@, [f EXCEPT !.pc = "built"])]
    /\ UNCHANGED <<sam, logVars, tee, ctr, fs, late>>

\* return factory(u): the factory gives a sink or an error
NestedFactoryReturn(p, out) ==
    /\ At(p, "newSink", "built")
    /\ reg' = [reg EXCEPT !.g[p] = Pop(@, out)]
    /\ UNCHANGED <<sam, logVars, tee, ctr, fs, late>>

\* The steps of a goroutine inside its calls.
NestedStep(p) ==
    \/ NestedLock(p)
    \/ NestedRegister(p)
    \/ NestedUnlock(p)
    \/ NestedRLock(p)
    \/ NestedLookup(p)
    \/ NestedRUnlock(p)
    \/ NestedFactory(p)
    \/ \E out \in FactoryResults : NestedFactoryReturn(p, out)

NestedNext ==
    \E p \in NestedProcs :
        \/ \E scheme \in NestedRegSchemes, factory \in UserFactories :
              NestedRegCall(p, scheme, factory)
        \/ \E parsed \in BOOLEAN, scheme \in NestedSinkSchemes :
              (parsed \/ scheme = <<>>) /\ NestedSinkCall(p, parsed, scheme)
        \/ NestedStep(p)

SpecNested ==
    /\ NestedInit
    /\ [][NestedNext]_vars
    /\ \A p \in NestedProcs : WF_vars(NestedStep(p))

InCall(p) == Stack(p) # <<>>
\* Whether the mutex is held, as the code has it at each position.
HoldsAsCoded ==
    \A p \in NestedProcs :
        /\ reg.mu.w = p <=> (InCall(p) /\ Top(p).op = "RegisterSink"
                                        /\ Top(p).pc \in {"body", "unlock"})
        /\ p \in reg.mu.r <=> (InCall(p) /\ Top(p).op = "newSink"
                                          /\ Top(p).pc \in {"lookup", "runlock"})

\* C31: the mutex is held by a goroutine only between the Lock and the return
\* of its RegisterSink, whichever return that is, and between the RLock and
\* the RUnlock of its newSink, so not while the factory runs; and, every
\* goroutine that can step being scheduled, each call of RegisterSink and of
\* newSink returns, those made by a factory and those that invoke such a
\* factory included.
C31_CallsComplete ==
    /\ []HoldsAsCoded
    /\ \A p \in NestedProcs : InCall(p) ~> ~InCall(p)

\* Goroutine 1 is in the RegisterSink its factory called, holding the mutex,
\* while goroutine 2, whose RegisterSink of that factory returned, waits for
\* the mutex in a RegisterSink that will be refused.
C31_Witness ==
    /\ Len(Stack(1)) = 2 /\ At(1, "RegisterSink", "unlock") /\ reg.mu.w = 1
    /\ Top(1).res = "ok"
    /\ At(2, "RegisterSink", "lock") /\ Top(2).scheme = SchemeEmpty
    /\ reg.g[2].res = "ok"

(***************************************************************************)
(* SpecFile: newFileSink is called with URLs of every shape, and the sinks *)
(* it returned are written to and closed.                                  *)
(*   streams  whether os.Stdout and os.Stderr are open                     *)
(*   files    the paths that exist                                         *)
(*   sinks    the sinks returned, with the number of Close calls on each   *)
(*            and whether its file is still open                           *)
(*   last     the last call: its arguments and what it returned            *)
(***************************************************************************)
MaxSinks == 2
MaxCloses == 2

Streams == {"stdout", "stderr"}
UrlHosts == {"", "localhost", "example.com"}
UrlPaths == {"stdout", "stderr", "/stdout", "/tmp/log", ""}
Urls ==
    [user : BOOLEAN, fragment : {"", "frag"}, rawQuery : {"", "q=1"}, port : {"", "80"},
     host : UrlHosts, path : UrlPaths]

NoUrl == [user |-> FALSE, fragment |-> "", rawQuery |-> "", port |-> "", host |-> "", path |-> ""]
NoFsCall == [op |-> "none", u |-> NoUrl, sink |-> NoSink, err |-> "nil", opens |-> <<>>, i |-> 0]

FsInit ==
    /\ IdleSam /\ IdleLog /\ IdleTee /\ IdleReg /\ IdleCtr /\ IdleLate
    /\ fs = [streams |-> [st \in Streams |-> TRUE],
             files   |-> {},
             sinks   |-> <<>>,
             last    |-> NoFsCall]

\* sink, err := newFileSink(u)
FsNew(u, openOk) ==
    /\ fs.last.op = "none"
    /\ Len(fs.sinks) < MaxSinks
    /\ LET r == newFileSinkOf(u, openOk)
       IN  fs' = [fs EXCEPT
                    !.files = IF r.opens # <<>> /\ openOk THEN @ \cup {u.path} ELSE @,
                    !.sinks = IF r.err = "nil"
                              THEN Append(@, [sink |-> r.sink, closes |-> 0, open |-> TRUE])
                              ELSE @,
                    !.last = [NoFsCall EXCEPT !.op = "new", !.u = u, !.sink = r.sink,
                                                !.err = r.err, !.opens = r.opens]]
    /\ UNCHANGED <<sam, logVars, tee, reg, ctr, late>>

\* err := sinks[i].Close(): nil for a nopCloserSink; a file is closed by the
\* first Close and the later ones return an error
FsClose(i) ==
    /\ fs.last.op = "none"
    /\ fs.sinks[i].closes < MaxCloses
    /\ LET sk == fs.sinks[i]
       IN  IF sk.sink.kind = "nopCloser"
           THEN fs' = [fs EXCEPT
                         !.streams = NopClose(@, sk.sink.target),
                         !.sinks[i].closes = @ + 1,
                         !.last = [NoFsCall EXCEPT !.op = "close", !.i = i, !.sink = sk.sink]]
           ELSE fs' = [fs EXCEPT
                         !.sinks[i].closes = @ + 1,
                         !.sinks[i].open = FALSE,
                         !.last = [NoFsCall EXCEPT !.op = "close", !.i = i, !.sink = sk.sink,
                                      !.err = IF sk.open THEN "nil" ELSE "closed"]]
    /\ UNCHANGED <<sam, logVars, tee, reg, ctr, late>>

\* _, err := sinks[i].Write(p): fails on a closed stream or file
FsWrite(i) ==
    /\ fs.last.op = "none"
    /\ LET sk == fs.sinks[i]
           ok == IF sk.sink.kind = "nopCloser" THEN fs.streams[sk.sink.target] ELSE sk.open
       IN  fs' = [fs EXCEPT
                    !.last = [NoFsCall EXCEPT !.op = "write", !.i = i, !.sink = sk.sink,
                                 !.err = IF ok THEN "nil" ELSE "closed"]]
    /\ UNCHANGED <<sam, logVars, tee, reg, ctr, late>>

\* The caller has looked at what the call returned and goes on.
FsReturn ==
    /\ fs.last.op # "none"
    /\ fs' = [fs EXCEPT !.last = NoFsCall]
    /\ UNCHANGED <<sam, logVars, tee, reg, ctr, late>>

FsNext ==
    \/ \E u \in Urls, openOk \in BOOLEAN : FsNew(u, openOk)
    \/ \E i \in DOMAIN fs.sinks : FsClose(i)
    \/ \E i \in DOMAIN fs.sinks : FsWrite(i)
    \/ FsReturn

SpecFile == FsInit /\ [][FsNext]_vars

\* Whether the URL has something a file URL may not have.
Forbidden(u) ==
    \/ u.user \/ u.fragment # "" \/ u.rawQuery # "" \/ u.port # ""
    \/ u.host \notin {"", "localhost"}

\* C13: newFileSink returns an error and opens nothing for a URL with
\* user-info, a fragment, a query, a port or a host other than "" and
\* "localhost"; for the path "stdout" or "stderr" it returns that stream in a
\* sink whose Close returns nil and leaves the stream open and writable,
\* however often it is called; every other path is opened once, for append
\* and with creation.
C13_FileFactory ==
    /\ \A st \in Streams : fs.streams[st]
    /\ fs.last.op = "new"
          => IF Forbidden(fs.last.u)
             THEN fs.last.err # "nil" /\ fs.last.sink = NoSink /\ fs.last.opens = <<>>
             ELSE IF fs.last.u.path \in Streams
             THEN /\ fs.last.err = "nil" /\ fs.last.opens = <<>>
                  /\ fs.last.sink = [kind |-> "nopCloser", target |-> fs.last.u.path]
             ELSE /\ fs.last.opens
                        = << <<fs.last.u.path, {"O_WRONLY", "O_APPEND", "O_CREATE"}>> >>
                  /\ fs.last.err = "nil" => fs.last.sink = [kind |-> "file", target |-> fs.last.u.path]
                  /\ fs.last.err # "nil" => fs.last.sink = NoSink
    /\ (fs.last.op \in {"close", "write"} /\ fs.last.sink.kind = "nopCloser")
          => fs.last.err = "nil"

\* The sink for "stdout" was closed twice and then written to, without error.
C13_Witness ==
    /\ fs.last.op = "write" /\ fs.last.err = "nil"
    /\ fs.last.sink = [kind |-> "nopCloser", target |-> "stdout"]
    /\ fs.sinks[fs.last.i].closes = 2
    /\ \E j \in DOMAIN fs.sinks : fs.sinks[j].sink.kind = "file"

(***************************************************************************)
(* Specification SpecCounter: goroutines call IncCheckReset on one counter *)
(* at the same time.  The call runs in its atomic operations: the Load of  *)
(* resetAt, then either counter.Inc, or counter.Store(1), the CAS on       *)
(* resetAt and, when the CAS failed, counter.Inc.                          *)
(*   c       the counter, start the counter before the first call          *)
(*   g[p]    goroutine p: pc (idle, inc, store, cas, ret), its timestamp   *)
(*           tn, the resetAfter it loaded, the newResetAfter it computed,  *)
(*           the outcome of its CAS and the value n it returns             *)
(*   log     the finished calls, in the order they returned                *)
(***************************************************************************)
MaxCtrCalls == 3
CtrProcs == {1, 2, 3}
CtrTimes == {0, 1}

\* atomic.Int64.CAS
\* A faulty variant: the swap is made whatever the value that is there.
CAS_Blind(cur, old, new) == [ok |-> TRUE, val |-> new]

\* A faulty variant: a swap that fails puts back the value the caller expected.
CAS_PutsBack(cur, old, new) == [ok |-> cur = old, val |-> IF cur = old THEN new ELSE old]

CAS(cur, old, new) == [ok |-> cur = old, val |-> IF cur = old THEN new ELSE cur]

IdleCaller ==
    [pc |-> "idle", tn |-> 0, resetAfter |-> 0, newResetAfter |-> 0,
     cas |-> "none", n |-> 0]

\* Counters that calls made one after the other leave behind.
CtrStarts(tick) ==
    {ZeroCounter,
     IncCheckReset(ZeroCounter, 0, tick).c,
     IncCheckReset(IncCheckReset(ZeroCounter, 0, tick).c, 0, tick).c}

CtrInit ==
    /\ IdleSam /\ IdleLog /\ IdleTee /\ IdleReg /\ IdleFs /\ IdleLate
    /\ \E tick \in 0..MaxTick : \E c0 \in CtrStarts(tick) :
          ctr = [c |-> c0, start |-> c0, tick |-> tick,
                 g |-> [p \in CtrProcs |-> IdleCaller], calls |-> 0, log |-> <<>>]

\* tn := t.UnixNano(); resetAfter := c.resetAt.Load(); if resetAfter > tn
CtrLoad(p, tn) ==
    /\ ctr.g[p].pc = "idle"
    /\ ctr.calls < MaxCtrCalls
    /\ ctr' = [ctr EXCEPT
          !.calls = @ + 1,
          !.g[p] = [IdleCaller EXCEPT
                       !.tn = tn, !.resetAfter = ctr.c.resetAt,
                       !.pc = IF ctr.c.resetAt > tn THEN "inc" ELSE "store"]]
    /\ UNCHANGED <<sam, logVars, tee, reg, fs, late>>

\* return c.counter.Inc()
CtrInc(p) ==
    /\ ctr.g[p].pc = "inc"
    /\ ctr' = [ctr EXCEPT !.c.counter = @ + 1,
                          !.g[p].n = ctr.c.counter + 1, !.g[p].pc = "ret"]
    /\ UNCHANGED <<sam, logVars, tee, reg, fs, late>>

\* c.counter.Store(1); newResetAfter := tn + tick.Nanoseconds()
CtrStore(p) ==
    /\ ctr.g[p].pc = "store"
    /\ ctr' = [ctr EXCEPT !.c.counter = 1,
                          !.g[p].newResetAfter = ctr.g[p].tn + ctr.tick,
                          !.g[p].pc = "cas"]
    /\ UNCHANGED <<sam, logVars, tee, reg, fs, late>>

\* if !c.resetAt.CAS(resetAfter, newResetAfter) { return c.counter.Inc() }; return 1
CtrCAS(p) ==
    /\ ctr.g[p].pc = "cas"
    /\ LET r == CAS(ctr.c.resetAt, ctr.g[p].resetAfter, ctr.g[p].newResetAfter)
       IN  ctr' = [ctr EXCEPT
              !.c.resetAt = r.val,
              !.g[p].cas = IF r.ok THEN "ok" ELSE "fail",
              !.g[p].n = IF r.ok THEN 1 ELSE 0,
              !.g[p].pc = IF r.ok THEN "ret" ELSE "inc"]
    /\ UNCHANGED <<sam, logVars, tee, reg, fs, late>>

\* The call returns n.
CtrReturn(p) ==
    /\ ctr.g[p].pc = "ret"
    /\ ctr' = [ctr EXCEPT
          !.log = Append(@, [p |-> p, tn |-> ctr.g[p].tn, n |-> ctr.g[p].n,
                             resetAfter |-> ctr.g[p].resetAfter,
                             cas |-> ctr.g[p].cas]),
          !.g[p] = IdleCaller]
    /\ UNCHANGED <<sam, logVars, tee, reg, fs, late>>

CtrNext ==
    \/ \E p \in CtrProcs, tn \in CtrTimes : CtrLoad(p, tn)
    \/ \E p \in CtrProcs : CtrInc(p)
    \/ \E p \in CtrProcs : CtrStore(p)
    \/ \E p \in CtrProcs : CtrCAS(p)
    \/ \E p \in CtrProcs : CtrReturn(p)

SpecCounter == CtrInit /\ [][CtrNext]_vars

\* No call is in progress.
CtrQuiet == \A p \in CtrProcs : ctr.g[p].pc = "idle"

\* The call found the deadline expired.
Expired(call) == call.resetAfter <= call.tn

\* All calls made so far fall into one window that the first of them opens:
\* none is stamped before the deadline the counter started with, and each
\* is stamped less than a tick after every other.
OneWindow ==
    /\ ctr.tick > 0
    /\ \A i \in DOMAIN ctr.log : ctr.log[i].tn >= ctr.start.resetAt
    /\ \A i, j \in DOMAIN ctr.log : ctr.log[i].tn < ctr.log[j].tn + ctr.tick

\* C17: the k calls of one window, made by goroutines at the same time,
\* return each of 1..k once.
C17_EachCountOnce ==
    (CtrQuiet /\ ctr.log # <<>> /\ OneWindow)
    => /\ {ctr.log[i].n : i \in DOMAIN ctr.log} = 1..Len(ctr.log)
       /\ ctr.c.counter = Len(ctr.log)

\* Three calls of one window ended, two of which found the deadline expired.
C17_Witness ==
    /\ CtrQuiet /\ OneWindow /\ Len(ctr.log) = 3
    /\ Cardinality({i \in DOMAIN ctr.log : Expired(ctr.log[i])}) = 2
    /\ Cardinality({i \in DOMAIN ctr.log : ctr.log[i].n = 2}) = 2

\* The goroutines whose CAS succeeded and that have not returned yet.
Swapped == {p \in CtrProcs : ctr.g[p].cas = "ok"}

\* Of the calls that loaded one deadline, finished or not, at most one has
\* replaced it.
OneSwapPerDeadline ==
    /\ \A i, j \in DOMAIN ctr.log :
          (i # j /\ ctr.log[i].cas = "ok" /\ ctr.log[j].cas = "ok")
              => ctr.log[i].resetAfter # ctr.log[j].resetAfter
    /\ \A p, q \in Swapped : p # q => ctr.g[p].resetAfter # ctr.g[q].resetAfter
    /\ \A p \in Swapped : \A i \in DOMAIN ctr.log :
          ctr.log[i].cas = "ok" => ctr.log[i].resetAfter # ctr.g[p].resetAfter

\* A step changes the deadline only by the CAS of a goroutine that loaded
\* the deadline d that is there, at or before its timestamp t, and then to
\* t + tick; the deadline does not decrease.
DeadlineStep ==
    /\ ctr'.c.resetAt >= ctr.c.resetAt
    /\ ctr'.c.resetAt # ctr.c.resetAt
          => \E p \in CtrProcs :
                /\ ctr.g[p].pc = "cas" /\ ctr'.g[p].cas = "ok"
                /\ ctr.g[p].resetAfter = ctr.c.resetAt
                /\ ctr.g[p].tn >= ctr.c.resetAt
                /\ ctr'.c.resetAt = ctr.g[p].tn + ctr.tick

\* C35: with a tick above zero, whatever the interleaving of the calls of
\* IncCheckReset, the deadline of the counter never decreases: only a CAS
\* that succeeds changes it, from the deadline d that its caller loaded to
\* t + tick for the caller's timestamp t >= d, and of the calls that loaded
\* the same expired deadline at most one succeeds.
C35_DeadlineMonotone ==
    /\ [](ctr.tick > 0 => OneSwapPerDeadline)
    /\ [][ctr.tick > 0 => DeadlineStep]_vars

\* On a new counter with tick 1 three calls ended: two of them loaded the
\* deadline 0 and one of the two replaced it, and the third replaced the
\* deadline that one had set.
C35_Witness ==
    /\ CtrQuiet /\ ctr.tick = 1 /\ ctr.start = ZeroCounter /\ Len(ctr.log) = 3
    /\ ctr.c.resetAt = 2
    /\ \E i, j, k \in DOMAIN ctr.log :
          /\ ctr.log[i].cas = "ok" /\ ctr.log[i].resetAfter = 0
          /\ ctr.log[j].cas = "fail" /\ ctr.log[j].resetAfter = 0
          /\ ctr.log[k].cas = "ok" /\ ctr.log[k].resetAfter = 1

\* Exactly two calls were made, both loaded the same expired deadline.
TwoResetters ==
    /\ CtrQuiet /\ ctr.calls = 2 /\ Len(ctr.log) = 2
    /\ Expired(ctr.log[1]) /\ Expired(ctr.log[2])
    /\ ctr.log[1].resetAfter = ctr.log[2].resetAfter

ResetOutcome ==
    \E w, l \in {1, 2} :
        /\ w # l
        /\ ctr.log[w].cas = "ok" /\ ctr.log[w].n = 1
        /\ ctr.log[l].cas = "fail" /\ ctr.log[l].n = 2
        /\ ctr.c.counter = 2
        /\ ctr.c.resetAt = ctr.log[w].tn + ctr.tick

\* C18: with a tick above zero, of two calls that loaded the same expired
\* deadline exactly one wins the CAS and returns 1, the other returns 2, and
\* afterwards the count is 2 and the deadline the winner's timestamp plus
\* the tick.
C18_OneResetWins == (TwoResetters /\ ctr.tick > 0) => ResetOutcome

\* The same for every tick.
C18_OneResetWinsAnyTick == TwoResetters => ResetOutcome

\* Two calls with different timestamps raced and the later-stamped one won.
C18_Witness ==
    /\ TwoResetters /\ ctr.tick > 0
    /\ \E w, l \in {1, 2} :
          /\ ctr.log[w].cas = "ok" /\ ctr.log[l].cas = "fail"
          /\ ctr.log[w].tn > ctr.log[l].tn

(***************************************************************************)
(* Specification SpecLate: the cores of a Logger share one LevelEnabler    *)
(* whose threshold can be changed while the program runs.  An entry is     *)
(* checked, and written later: in between the threshold may change, the   *)
(* clock may advance and other entries may be checked.                     *)
(*   level   the threshold the LevelEnabler holds now                      *)
(*   shape   which core the Logger is built over                           *)
(*   counts  the counter tables of the samplers, now the clock             *)
(*   pend    the entry that was checked and not yet written, the cores     *)
(*           that were collected for it and the threshold at that time     *)
(*   last    the Write in progress: the entry, the cores written, the      *)
(*           threshold at the time, the calls made and the error           *)
(***************************************************************************)
MaxLateCalls == 3
LateLevels == {InfoLevel, ErrorLevel, PanicLevel}
LateBuckets == {CountersGet(l, MsgA) : l \in LateLevels}

\* The core with the threshold its LevelEnabler holds at the time of a call.
LateCore(shape, level) ==
    CASE shape = 1 -> NewCore(1, 1, level)
      [] shape = 2 -> NewSampler(NewCore(1, 1, level), 1, 1, 2, LogTable)
      [] shape = 3 -> NewTee(<<NewSampler(NewCore(1, 1, level), 1, 1, 2, LogTable),
                               NewCore(2, 2, level)>>)
LateShapes == 1..3

AtLevel(cores, level) == [i \in DOMAIN cores |-> [cores[i] EXCEPT !.enab = level]]

NoPend == [has |-> FALSE, ent |-> ZeroEntry, cores |-> <<>>, level |-> InfoLevel,
           count |-> ZeroCounter]
NoLateCall == [op |-> "none", ent |-> ZeroEntry, cores |-> <<>>, level |-> InfoLevel,
               checked |-> InfoLevel, count |-> ZeroCounter, ev |-> <<>>, err |-> <<>>]

LateInit ==
    /\ IdleSam /\ IdleLog /\ IdleTee /\ IdleReg /\ IdleCtr /\ IdleFs
    /\ \E shape \in LateShapes, level \in LateLevels :
          late = [level |-> level, shape |-> shape,
                  counts |-> [t \in {LogTable} |-> [b \in LateBuckets |-> ZeroCounter]],
                  now |-> 0, pend |-> NoPend, last |-> NoLateCall, calls |-> 0]

\* core.Check(ent, nil); the first handle that comes back is kept for a
\* later Write.
LateCheck(lvl) ==
    /\ late.last.op = "none"
    /\ late.calls < MaxLateCalls
    /\ LET ent == NewEntry(lvl, late.now, MsgA)
           st  == Check(LateCore(late.shape, late.level), ent, FreshSt(late.counts))
       IN  late' = [late EXCEPT
              !.calls = @ + 1,
              !.counts = st.counts,
              !.pend = IF st.ce # Nil /\ ~late.pend.has
                       THEN [has |-> TRUE, ent |-> ent, cores |-> st.handles[st.ce].cores,
                             level |-> late.level,
                             count |-> st.counts[LogTable][CountersGet(lvl, MsgA)]]
                       ELSE @]
    /\ UNCHANGED <<sam, logVars, tee, reg, ctr, fs>>

\* The threshold of the LevelEnabler is changed.
LateSetLevel(level) ==
    /\ late.last.op = "none"
    /\ level # late.level
    /\ late' = [late EXCEPT !.level = level]
    /\ UNCHANGED <<sam, logVars, tee, reg, ctr, fs>>

\* The clock advances.
LateTick ==
    /\ late.last.op = "none"
    /\ late.now < MaxTime
    /\ late' = [late EXCEPT !.now = @ + 1]
    /\ UNCHANGED <<sam, logVars, tee, reg, ctr, fs>>

\* The entry checked earlier is written: by the loop of CheckedEntry.Write
\* over the collected cores, or by a call of Write on the Logger's core.
LateWrite(direct) ==
    /\ late.last.op = "none"
    /\ late.pend.has
    /\ LET cores == IF direct
                    THEN <<LateCore(late.shape, late.level)>>
                    ELSE AtLevel(late.pend.cores, late.level)
           r == MultiWrite(multiCore(cores), 1, late.pend.ent, <<>>,
                           [e \in DOMAIN LogEncs |-> "ok"], LogEncs,
                           [err |-> <<>>, ev |-> <<>>])
       IN  late' = [late EXCEPT
              !.pend = NoPend,
              !.last = [op |-> "write", ent |-> late.pend.ent, cores |-> cores,
                        level |-> late.level, checked |-> late.pend.level,
                        count |-> late.pend.count, ev |-> r.ev, err |-> r.err]]
    /\ UNCHANGED <<sam, logVars, tee, reg, ctr, fs>>

\* The Write returns.
LateReturn ==
    /\ late.last.op # "none"
    /\ late' = [late EXCEPT !.last = NoLateCall]
    /\ UNCHANGED <<sam, logVars, tee, reg, ctr, fs>>

LateNext ==
    \/ \E lvl \in LateLevels : LateCheck(lvl)
    \/ \E level \in LateLevels : LateSetLevel(level)
    \/ LateTick
    \/ \E direct \in BOOLEAN : LateWrite(direct)
    \/ LateReturn

SpecLate == LateInit /\ [][LateNext]_vars

OutWrites(ev) == SelectSeq(ev, LAMBDA e : e[1] = "OutWrite")

\* C19: a Write of an entry that Check admitted writes the entry to the
\* output of every ioCore it is called on, whatever the threshold of the
\* LevelEnabler and the state of the sampling counters are by then.
C19_WriteAlwaysLogs ==
    late.last.op = "write"
    => LET ios == LeavesFrom(late.last.cores, 1)
       IN  /\ late.last.err = <<>>
           /\ OutWrites(late.last.ev)
                 = [k \in DOMAIN ios |-> <<"OutWrite", ios[k].out, late.last.ent, <<>> >>]

\* An Info entry was admitted by the sampler, then the threshold was raised
\* above Info and the sampler's window was left, and the entry was written.
C19_Witness ==
    /\ late.last.op = "write" /\ late.shape = 3
    /\ late.last.ent.Level = InfoLevel /\ late.last.checked = InfoLevel
    /\ late.last.level = PanicLevel
    /\ late.counts[LogTable][CountersGet(InfoLevel, MsgA)] # late.last.count
    /\ late.now > late.last.ent.Time
    /\ Len(OutWrites(late.last.ev)) = 2

(***************************************************************************)
(* Specification SpecSkip: Check is called on a sampler whose inner core   *)
(* has a LevelEnabler with a threshold that changes while the program      *)
(* runs.  The caller passes nil, or the handle that the Check of an ioCore *)
(* enabled at every level returned for the entry, as the loop of a tee     *)
(* does.  Here late holds                                                  *)
(*   level    the threshold of the sampler's inner core                    *)
(*   counts   the counter table, now the clock                             *)
(*   skipped  the levels of the entries checked while their level was not  *)
(*            enabled, counted those of the entries checked while it was   *)
(*   last     the Check in progress: the entry, whether its level was      *)
(*            enabled, the handle given and the handle returned with their *)
(*            contents, the table before the call, and whether no entry of *)
(*            the level had been counted before (fresh)                    *)
(***************************************************************************)
MaxSkipCalls == 3

SkipSampler(level) == NewSampler(NewCore(2, 2, level), 1, 1, 2, LogTable)
SkipFirst == NewCore(1, 1, DebugLevel)

NoSkipCall == [op |-> "none", ent |-> ZeroEntry, enabled |-> FALSE, fresh |-> FALSE,
               given |-> <<>>, got |-> <<>>, counts0 |-> <<>>]

SkipInit ==
    /\ IdleSam /\ IdleLog /\ IdleTee /\ IdleReg /\ IdleCtr /\ IdleFs
    /\ \E level \in LateLevels :
          late = [level |-> level,
                  counts |-> [t \in {LogTable} |-> [b \in LateBuckets |-> ZeroCounter]],
                  now |-> 0, skipped |-> {}, counted |-> {},
                  last |-> NoSkipCall, calls |-> 0]

\* The handle of a Check state and what it holds.
HandleOf(st) == [ce |-> st.ce, handles |-> st.handles, pool |-> st.pool]

\* sampler.Check(ent, ce), with ce nil or the handle of an ioCore's Check
SkipCheck(lvl, withHandle) ==
    /\ late.last.op = "none"
    /\ late.calls < MaxSkipCalls
    /\ LET ent == NewEntry(lvl, late.now, MsgA)
           st0 == IF withHandle
                  THEN Check(SkipFirst, ent, FreshSt(late.counts))
                  ELSE FreshSt(late.counts)
           s   == SkipSampler(late.level)
           st  == Check(s, ent, st0)
           on  == LevelEnabled(late.level, lvl)
       IN  late' = [late EXCEPT
              !.calls = @ + 1,
              !.counts = st.counts,
              !.skipped = IF on THEN @ ELSE @ \cup {lvl},
              !.counted = IF on THEN @ \cup {lvl} ELSE @,
              !.last = [op |-> "Check", ent |-> ent, enabled |-> on,
                        fresh |-> lvl \notin late.counted,
                        given |-> HandleOf(st0), got |-> HandleOf(st),
                        counts0 |-> late.counts]]
    /\ UNCHANGED <<sam, logVars, tee, reg, ctr, fs>>

\* The threshold of the LevelEnabler is changed.
SkipSetLevel(level) ==
    /\ late.last.op = "none"
    /\ level # late.level
    /\ late' = [late EXCEPT !.level = level]
    /\ UNCHANGED <<sam, logVars, tee, reg, ctr, fs>>

\* The clock advances.
SkipTick ==
    /\ late.last.op = "none"
    /\ late.now < MaxTime
    /\ late' = [late EXCEPT !.now = @ + 1]
    /\ UNCHANGED <<sam, logVars, tee, reg, ctr, fs>>

\* The Check returns.
SkipReturn ==
    /\ late.last.op # "none"
    /\ late' = [late EXCEPT !.last = NoSkipCall]
    /\ UNCHANGED <<sam, logVars, tee, reg, ctr, fs>>

SkipNext ==
    \/ \E lvl \in LateLevels, withHandle \in BOOLEAN : SkipCheck(lvl, withHandle)
    \/ \E level \in LateLevels : SkipSetLevel(level)
    \/ SkipTick
    \/ SkipReturn

SpecSkip == SkipInit /\ [][SkipNext]_vars

\* C32: a Check of an entry whose level the sampler's inner core does not
\* enable returns the handle it was given, with the contents it had, and
\* leaves every counter and deadline as it was; so the first entry of a level
\* that is counted, after the level was enabled, finds the zero counter and
\* is the first of its window.
C32_DisabledIsFree ==
    late.last.op = "Check"
    => LET b == CountersGet(late.last.ent.Level, MsgA)
       IN  /\ ~late.last.enabled
                => /\ late.last.got = late.last.given
                   /\ late.counts = late.last.counts0
           /\ (late.last.enabled /\ late.last.fresh)
                => /\ late.last.counts0[LogTable][b] = ZeroCounter
                   /\ late.counts[LogTable][b].counter = 1

\* Info entries were checked while Info was not enabled; the threshold was
\* lowered, and the next Info entry, passed with a handle, is the first of its
\* window and is admitted by the sampler's inner core too.
C32_Witness ==
    /\ late.last.op = "Check" /\ late.last.enabled /\ late.last.fresh
    /\ late.last.ent.Level = InfoLevel /\ InfoLevel \in late.skipped
    /\ late.calls = MaxSkipCalls
    /\ late.last.given.ce # Nil
    /\ Len(late.last.got.handles[late.last.got.ce].cores) = 2

(***************************************************************************)
(* Specification SpecEnabled: a core is built with NewTee over members     *)
(* with different thresholds, and Enabled is called on it for each level.  *)
(* Here tee holds the members, the core NewTee returned (built) and the    *)
(* call in progress.                                                       *)
(***************************************************************************)
MaxEnArgs == 3

\* The cores a tee is built over.
EnCores ==
    { NewNopCore,
      NewCore(1, 1, InfoLevel),
      NewSampler(NewCore(2, 2, ErrorLevel), 1, 1, 2, TeeTable),
      NewCore(2, 2, FatalLevel),
      NewTee(<<NewCore(1, 1, WarnLevel), NewCore(2, 2, PanicLevel)>>) }

NoEnCall == [op |-> "none", lvl |-> InfoLevel, result |-> FALSE]

EnInit ==
    /\ IdleSam /\ IdleLog /\ IdleReg /\ IdleCtr /\ IdleFs /\ IdleLate
    /\ \E args \in SeqsUpTo(EnCores, MaxEnArgs) :
          tee = [args |-> args, built |-> FALSE, core |-> NewNopCore, last |-> NoEnCall]

\* core := NewTee(args...)
EnNewTee ==
    /\ ~tee.built
    /\ tee' = [tee EXCEPT !.built = TRUE, !.core = NewTee(tee.args)]
    /\ UNCHANGED <<sam, logVars, reg, ctr, fs, late>>

\* core.Enabled(lvl)
EnEnabled(lvl) ==
    /\ tee.built
    /\ tee.last.op = "none"
    /\ tee' = [tee EXCEPT !.last = [op |-> "Enabled", lvl |-> lvl,
                                    result |-> Enabled(tee.core, lvl)]]
    /\ UNCHANGED <<sam, logVars, reg, ctr, fs, late>>

\* The call returns.
EnReturn ==
    /\ tee.last.op # "none"
    /\ tee' = [tee EXCEPT !.last = NoEnCall]
    /\ UNCHANGED <<sam, logVars, reg, ctr, fs, late>>

EnNext ==
    \/ EnNewTee
    \/ \E lvl \in Levels : EnEnabled(lvl)
    \/ EnReturn

SpecEnabled == EnInit /\ [][EnNext]_vars

\* The thresholds of the ioCores below the members.
Thresholds(cores) ==
    LET ios == LeavesFrom(cores, 1) IN {ios[k].enab : k \in DOMAIN ios}

\* C20: Enabled of a core built with NewTee is true iff Enabled of at least
\* one member is, that is, iff the level is at or above the lowest
\* threshold among the members.
C20_EnabledIsOr ==
    tee.last.op = "Enabled"
    => /\ tee.last.result
            <=> \E i \in DOMAIN tee.args : Enabled(tee.args[i], tee.last.lvl)
       /\ tee.last.result
            <=> \E t \in Thresholds(tee.args) :
                   \A u \in Thresholds(tee.args) : t <= u /\ tee.last.lvl >= t

\* A multiCore of three members with different thresholds was asked for a
\* level that only its lowest member enables.
C20_Witness ==
    /\ tee.last.op = "Enabled" /\ tee.core.kind = "multi" /\ Len(tee.args) = 3
    /\ Cardinality(Thresholds(tee.args)) >= 3
    /\ tee.last.result
    /\ Cardinality({i \in DOMAIN tee.args : Enabled(tee.args[i], tee.last.lvl)}) = 1

(***************************************************************************)
(* Specification SpecReport: one goroutine logs through a Logger whose     *)
(* error output is set or nil, while the cores' Writes may fail.  The      *)
(* steps are those of SpecLogger.                                          *)
(***************************************************************************)
ReportInit ==
    /\ IdleSam /\ IdleTee /\ IdleReg /\ IdleCtr /\ IdleFs /\ IdleLate
    /\ \E k \in 1..Len(LogCores), dev \in BOOLEAN, eo \in {Nil, ErrOut} :
          lg = [core |-> LogCores[k], development |-> dev, errorOutput |-> eo,
                counts |-> [t \in {LogTable} |-> [b \in LogBuckets |-> ZeroCounter]],
                now |-> 0, exited |-> FALSE, calls |-> 0]
    /\ handles = [h \in HandleIds |-> NoHandle]
    /\ pool = [h \in HandleIds |-> 0]
    /\ procs = [p \in Procs |-> IdleProc]

ReportNext ==
    \/ \E lvl \in LogLevels, pick \in HandleIds : LogCall(1, lvl, pick)
    \/ WriteBegin(1)
    \/ \E oc \in Outcomes : WriteCore(1, oc)
    \/ WriteReport(1)
    \/ WritePut(1)
    \/ WriteTerminal(1)
    \/ Return(1)

SpecReport == ReportInit /\ [][ReportNext]_vars

\* The events of a Write that concern ErrorOutput.
ErrEvents(ev) == SelectSeq(ev, LAMBDA e : e[1] \in {"ErrorReport", "ErrSync"})

\* C21: a first Write that is past its loop has written one report of the
\* cores' errors to ErrorOutput and then synced it when a core failed and
\* ErrorOutput is set, and has written nothing to ErrorOutput otherwise; a
\* Write that ended has in both cases returned the handle to the pool and
\* taken the terminal action of the handle.
C21_ErrorReport ==
    \A p \in Procs :
        (~procs[p].second /\ procs[p].pc \in {"put", "terminal", "done"}
           /\ procs[p].ce # Nil)
        => /\ ErrEvents(procs[p].ev)
                = IF procs[p].err # <<>> /\ procs[p].sawErrOut # Nil
                  THEN << <<"ErrorReport", procs[p].sawErrOut, procs[p].err>>,
                          <<"ErrSync", procs[p].sawErrOut>> >>
                  ELSE <<>>
           /\ procs[p].pc = "done"
                 => /\ CountOf(procs[p].ev, "Put") = 1
                    /\ procs[p].outcome
                          = CASE procs[p].should = WriteThenPanic -> "panic"
                              [] procs[p].should = WriteThenFatal -> "exit"
                              [] OTHER -> "returned"

\* A Panic call whose core failed and whose handle had no ErrorOutput
\* dropped the error, returned the handle and panicked.
C21_Witness ==
    \E p \in Procs :
        /\ procs[p].pc = "done" /\ ~procs[p].second
        /\ procs[p].err # <<>> /\ procs[p].sawErrOut = Nil
        /\ procs[p].outcome = "panic"
        /\ CountOf(procs[p].ev, "Put") = 1

(***************************************************************************)
(* Specification SpecIo: Write is called on an ioCore with entries of      *)
(* every level while its encoder, the write to its output or the Sync of   *)
(* its output fails.  Here tee holds the core and the call in progress:    *)
(* the entry, the fields, what fails, the calls made and the error         *)
(* returned.                                                               *)
(***************************************************************************)
IoCores == {NewCore(e, o, th) : e \in 1..2, o \in 1..2, th \in {InfoLevel, ErrorLevel}}
IoFields == {<<>>, <<1>>}
IoEncs == << <<>>, <<2>> >>

NoIoCall == [op |-> "none", ent |-> ZeroEntry, fields |-> <<>>, oc |-> "ok",
             ev |-> <<>>, err |-> <<>>]

IoInit ==
    /\ IdleSam /\ IdleLog /\ IdleReg /\ IdleCtr /\ IdleFs /\ IdleLate
    /\ \E c \in IoCores : tee = [core |-> c, last |-> NoIoCall]

\* err := core.Write(ent, fields)
IoCallWrite(lvl, fields, oc) ==
    /\ tee.last.op = "none"
    /\ LET ent == NewEntry(lvl, 0, MsgA)
           r   == CoreWrite(tee.core, ent, fields, [e \in DOMAIN IoEncs |-> oc], IoEncs)
       IN  tee' = [tee EXCEPT !.last = [op |-> "Write", ent |-> ent, fields |-> fields,
                                        oc |-> oc, ev |-> r.ev, err |-> r.err]]
    /\ UNCHANGED <<sam, logVars, reg, ctr, fs, late>>

\* The call returns.
IoReturn ==
    /\ tee.last.op # "none"
    /\ tee' = [tee EXCEPT !.last = NoIoCall]
    /\ UNCHANGED <<sam, logVars, reg, ctr, fs, late>>

IoNext ==
    \/ \E lvl \in Levels, fields \in IoFields, oc \in Outcomes : IoCallWrite(lvl, fields, oc)
    \/ IoReturn

SpecIo == IoInit /\ [][IoNext]_vars

\* C22: when the encoder fails Write returns its error and neither writes
\* to nor syncs the output; when the write to the output fails Write
\* returns that error; otherwise Write returns nil, also when the Sync
\* that follows fails.
C22_FailurePolicy ==
    tee.last.op = "Write"
    => /\ tee.last.oc = "encErr"
            => /\ tee.last.err = << <<"encErr", tee.core.enc>> >>
               /\ CountOf(tee.last.ev, "OutWrite") = 0
               /\ CountOf(tee.last.ev, "OutSync") = 0
       /\ tee.last.oc = "writeErr"
            => /\ tee.last.err = << <<"writeErr", tee.core.out>> >>
               /\ CountOf(tee.last.ev, "OutWrite") = 1
       /\ tee.last.oc \in {"ok", "syncErr"}
            => /\ tee.last.err = <<>>
               /\ OutWrites(tee.last.ev)
                     = << <<"OutWrite", tee.core.out, tee.last.ent,
                            IoEncs[tee.core.enc] \o tee.last.fields>> >>

\* A Fatal entry was written and the Sync that followed failed.
C22_Witness ==
    /\ tee.last.op = "Write" /\ tee.last.oc = "syncErr"
    /\ tee.last.ent.Level = FatalLevel
    /\ CountOf(tee.last.ev, "OutSync") = 1
    /\ tee.last.err = <<>>

\* C23: a Write that handed an entry above Error level to the output has
\* synced the output after that, whether the write succeeded or failed, and
\* a Write of an entry at Error level or below has not synced it.
C23_SyncsAboveError ==
    (tee.last.op = "Write" /\ CountOf(tee.last.ev, "OutWrite") = 1)
    => IF tee.last.ent.Level > ErrorLevel
       THEN tee.last.ev[Len(tee.last.ev)] = <<"OutSync", tee.core.out>>
       ELSE CountOf(tee.last.ev, "OutSync") = 0

\* The write of a Panic entry to the output failed.
C23_Witness ==
    /\ tee.last.op = "Write" /\ tee.last.oc = "writeErr"
    /\ tee.last.ent.Level = PanicLevel
    /\ CountOf(tee.last.ev, "OutWrite") = 1
    /\ CountOf(tee.last.ev, "OutSync") = 0

(***************************************************************************)
(* Specification SpecHandle: one caller builds a CheckedEntry with          *)
(* ioCore.Check, AddCore and Should, starting from nil or from the handle   *)
(* it holds, and calls Write on it.  handles and pool are as in            *)
(* SpecLogger; procs holds the handle the caller has (ce), exited, and the *)
(* call in progress with the handles and the pool as they were before it.  *)
(***************************************************************************)
MaxHandleCalls == 3
HandleCores == {NewCore(1, 1, InfoLevel), NewCore(2, 2, ErrorLevel)}
HandleEntries == {NewEntry(l, 0, msg) : l \in {DebugLevel, InfoLevel, ErrorLevel},
                                        msg \in {MsgA, MsgB}}
CheckWriteActions == {WriteThenNoop, WriteThenPanic, WriteThenFatal}

NoHandleCall ==
    [op |-> "none", ent |-> ZeroEntry, core |-> NewNopCore, should |-> WriteThenNoop,
     ce0 |-> Nil, handles0 |-> <<>>, pool0 |-> <<>>, ev |-> <<>>, outcome |-> "none"]

HandleInit ==
    /\ IdleSam /\ IdleTee /\ IdleReg /\ IdleCtr /\ IdleFs /\ IdleLate
    /\ lg = <<>>
    /\ handles = [h \in HandleIds |-> NoHandle]
    /\ pool = [h \in HandleIds |-> 0]
    /\ procs = [ce |-> Nil, exited |-> FALSE, calls |-> 0, last |-> NoHandleCall]

HandleSt(pick) ==
    [ce |-> procs.ce, handles |-> handles, pool |-> pool, pick |-> pick,
     counts |-> <<>>, trace |-> <<>>, divzero |-> FALSE]

HandleCanCall ==
    /\ ~procs.exited
    /\ procs.last.op = "none"
    /\ procs.calls < MaxHandleCalls

HandleCalled(op, ent, core, should, st) ==
    /\ handles' = st.handles
    /\ pool' = st.pool
    /\ procs' = [procs EXCEPT
          !.ce = st.ce, !.calls = @ + 1,
          !.last = [NoHandleCall EXCEPT !.op = op, !.ent = ent, !.core = core,
                                        !.should = should, !.ce0 = procs.ce,
                                        !.handles0 = handles, !.pool0 = pool]]
    /\ UNCHANGED <<sam, lg, tee, reg, ctr, fs, late>>

\* ce = core.Check(ent, ce) on an ioCore
HandleCheck(c, ent, pick) ==
    /\ HandleCanCall
    /\ pick \in PoolChoices(handles, pool)
    /\ HandleCalled("Check", ent, c, WriteThenNoop, IoCheck(c, ent, HandleSt(pick)))

\* ce = ce.AddCore(ent, core)
HandleAddCore(c, ent, pick) ==
    /\ HandleCanCall
    /\ pick \in PoolChoices(handles, pool)
    /\ HandleCalled("AddCore", ent, c, WriteThenNoop, AddCore(HandleSt(pick), ent, c))

\* ce = ce.Should(ent, should)
HandleShould(ent, should, pick) ==
    /\ HandleCanCall
    /\ pick \in PoolChoices(handles, pool)
    /\ HandleCalled("Should", ent, NewNopCore, should, Should(HandleSt(pick), ent, should))

\* CheckedEntry.Write as a whole, with cores whose Writes succeed.
CheckedWrite(ce, hs, pl) ==
    IF ce = Nil
    THEN [handles |-> hs, pool |-> pl, ev |-> <<>>, outcome |-> "returned"]
    ELSE IF IsReuse(hs[ce])
    THEN [handles |-> hs, pool |-> pl, outcome |-> "returned",
          ev |-> IF hs[ce].ErrorOutput # Nil
                 THEN << <<"ReuseReport", hs[ce].ErrorOutput>>,
                         <<"ErrSync", hs[ce].ErrorOutput>> >>
                 ELSE <<>>]
    ELSE LET r == MultiWrite(multiCore(hs[ce].cores), 1, hs[ce].Entry, <<>>,
                             [e \in DOMAIN LogEncs |-> "ok"], LogEncs,
                             [err |-> <<>>, ev |-> <<>>])
             rep == IF hs[ce].ErrorOutput # Nil /\ r.err # <<>>
                    THEN << <<"ErrorReport", hs[ce].ErrorOutput, r.err>>,
                            <<"ErrSync", hs[ce].ErrorOutput>> >>
                    ELSE <<>>
             should == hs[ce].should
         IN  [handles |-> [hs EXCEPT ![ce].dirty = TRUE],
              pool |-> putCheckedEntry(pl, ce),
              ev |-> r.ev \o rep \o << <<"Put", ce>> >>
                       \o CASE should = WriteThenPanic -> << <<"Panic", hs[ce].Entry.Message>> >>
                            [] should = WriteThenFatal -> << <<"Exit">> >>
                            [] OTHER -> <<>>,
              outcome |-> CASE should = WriteThenPanic -> "panic"
                            [] should = WriteThenFatal -> "exit"
                            [] OTHER -> "returned"]

\* ce.Write(); the caller does not keep the reference.
HandleWrite ==
    /\ HandleCanCall
    /\ LET r == CheckedWrite(procs.ce, handles, pool)
       IN  /\ handles' = r.handles
           /\ pool' = r.pool
           /\ procs' = [procs EXCEPT
                 !.ce = Nil, !.calls = @ + 1, !.exited = (r.outcome = "exit"),
                 !.last = [NoHandleCall EXCEPT !.op = "Write", !.ce0 = procs.ce,
                                               !.handles0 = handles, !.pool0 = pool,
                                               !.ev = r.ev, !.outcome = r.outcome]]
    /\ UNCHANGED <<sam, lg, tee, reg, ctr, fs, late>>

\* The call returns.
HandleReturn ==
    /\ ~procs.exited
    /\ procs.last.op # "none"
    /\ procs' = [procs EXCEPT !.last = NoHandleCall]
    /\ UNCHANGED <<sam, lg, handles, pool, tee, reg, ctr, fs, late>>

HandleNext ==
    \/ \E c \in HandleCores, ent \in HandleEntries, pick \in HandleIds : HandleCheck(c, ent, pick)
    \/ \E c \in HandleCores, ent \in HandleEntries, pick \in HandleIds : HandleAddCore(c, ent, pick)
    \/ \E ent \in HandleEntries, should \in CheckWriteActions, pick \in HandleIds :
          HandleShould(ent, should, pick)
    \/ HandleWrite
    \/ HandleReturn

SpecHandle == HandleInit /\ [][HandleNext]_vars

\* The handle a call on nil borrowed: taken from the pool or new, reset and
\* stamped with the entry of the call; no other handle has changed.
BorrowedFor(ent) ==
    LET h == procs.ce
        l == procs.last
    IN  /\ h # Nil
        /\ handles[h].Entry = ent
        /\ handles[h].ErrorOutput = Nil /\ ~handles[h].dirty
        /\ \A g \in HandleIds \ {h} : handles[g] = l.handles0[g] /\ pool[g] = l.pool0[g]
        /\ pool[h] = IF l.pool0[h] > 0 THEN l.pool0[h] - 1 ELSE 0
        /\ l.pool0[h] = 0 => ~l.handles0[h].alloc

\* C25: ioCore.Check on an enabled level returns the handle with the core
\* appended, borrowed and stamped with the entry when nil was given; on a
\* level that is not enabled it returns the handle it was given, nil
\* included, and changes no handle and not the pool.
C25_IoCheck ==
    procs.last.op = "Check"
    => LET l == procs.last
       IN  IF LevelEnabled(l.core.enab, l.ent.Level)
           THEN IF l.ce0 = Nil
                THEN /\ BorrowedFor(l.ent)
                     /\ handles[procs.ce].cores = <<l.core>>
                     /\ handles[procs.ce].should = WriteThenNoop
                ELSE /\ procs.ce = l.ce0
                     /\ pool = l.pool0
                     /\ handles = [l.handles0 EXCEPT ![l.ce0].cores = Append(@, l.core)]
           ELSE /\ procs.ce = l.ce0
                /\ handles = l.handles0
                /\ pool = l.pool0

\* Check was called with nil on a level that is not enabled while a handle
\* was in the pool.
C25_Witness ==
    /\ procs.last.op = "Check" /\ procs.last.ce0 = Nil
    /\ ~LevelEnabled(procs.last.core.enab, procs.last.ent.Level)
    /\ procs.ce = Nil
    /\ \E h \in HandleIds : pool[h] > 0

\* C27: a handle that is in the pool holds no entry, no error output, no
\* terminal action and no cores, and is not dirty.
C27_PooledIsReset ==
    \A h \in HandleIds :
        pool[h] > 0 => handles[h] = reset(handles[h])

\* A handle that was written with a core and a terminal action is in the pool.
C27_Witness ==
    \E h \in HandleIds :
        /\ pool[h] > 0 /\ handles[h].dirty
        /\ handles[h].cores # <<>> /\ handles[h].should = WriteThenPanic

HandleSetErrorOutput ==
    /\ ~procs.exited
    /\ procs.last.op = "none"
    /\ procs.ce # Nil
    /\ handles[procs.ce].ErrorOutput = Nil
    /\ handles' = [handles EXCEPT ![procs.ce].ErrorOutput = ErrOut]
    /\ UNCHANGED <<sam, lg, pool, procs, tee, reg, ctr, fs, late>>

BorrowNext ==
    \/ HandleNext
    \/ HandleSetErrorOutput

SpecBorrow == HandleInit /\ [][BorrowNext]_vars

\* Whether the call in progress borrowed a handle.
Borrowed ==
    /\ procs.last.ce0 = Nil
    /\ \/ procs.last.op \in {"AddCore", "Should"}
       \/ /\ procs.last.op = "Check"
          /\ LevelEnabled(procs.last.core.enab, procs.last.ent.Level)

\* C34: the handle that AddCore, Should or an ioCore's Check borrowed for nil
\* holds the entry of the call and what the call put into it, and nothing
\* else: it is not dirty, has no error output, its terminal action is
\* WriteThenNoop unless the call was Should, and its cores are the core of the
\* call alone, or none after Should; that is so for a handle the pool built
\* and for one that was put into the pool in any state.
C34_BorrowedIsClean ==
    Borrowed
    => LET l == procs.last
       IN  /\ procs.ce # Nil
           /\ handles[procs.ce] =
                 [alloc |-> TRUE, Entry |-> l.ent, ErrorOutput |-> Nil, dirty |-> FALSE,
                  should |-> IF l.op = "Should" THEN l.should ELSE WriteThenNoop,
                  cores |-> IF l.op = "Should" THEN <<>> ELSE <<l.core>>]

\* A handle that was written with a core, a terminal action and an error
\* output has come back from the pool for a Should on nil, while the other
\* handle was never built.
C34_Witness ==
    /\ Borrowed /\ procs.last.op = "Should"
    /\ LET h0 == procs.last.handles0[procs.ce]
       IN  /\ procs.last.pool0[procs.ce] > 0
           /\ h0.dirty /\ h0.ErrorOutput = ErrOut
           /\ h0.cores # <<>> /\ h0.Entry # procs.last.ent
    /\ \E g \in HandleIds : ~handles[g].alloc

(***************************************************************************)
(* Specification SpecTree: an entry is checked against a tree of fan-out,  *)
(* sampler and ioCores, and the handle that comes back is written.  Here   *)
(* late holds the tree, the counter tables, the clock, the handles and the *)
(* pool, the handle the caller has (ce) and the call in progress: for a    *)
(* Check the entry, the counters before it and the cores it collected, for *)
(* a Write the entry and cores of the handle and the calls made.           *)
(***************************************************************************)
MaxTreeCalls == 3
TreeLevels == {DebugLevel, InfoLevel, ErrorLevel}
TreeBuckets == {CountersGet(l, MsgA) : l \in TreeLevels}

\* The trees; the ioCores of a tree have different encoders, and a tree has
\* at most one sampler.
Trees ==
    << NewCore(1, 1, ErrorLevel),
       NewTee(<<NewCore(1, 1, InfoLevel),
                NewSampler(NewCore(2, 2, InfoLevel), 1, 1, 2, LogTable),
                NewCore(3, 1, ErrorLevel)>>),
       NewSampler(NewTee(<<NewCore(1, 1, ErrorLevel),
                           NewTee(<<NewCore(2, 2, InfoLevel), NewNopCore,
                                    NewCore(3, 2, WarnLevel)>>)>>),
                  1, 0, 2, LogTable),
       NewTee(<<NewCore(1, 1, ErrorLevel), NewCore(2, 2, ErrorLevel)>>) >>

NoTreeCall == [op |-> "none", ent |-> ZeroEntry, counts0 |-> <<>>, cores |-> <<>>,
               ev |-> <<>>]

TreeInit ==
    /\ IdleSam /\ IdleLog /\ IdleTee /\ IdleReg /\ IdleCtr /\ IdleFs
    /\ \E k \in DOMAIN Trees :
          late = [core |-> Trees[k],
                  counts |-> [t \in {LogTable} |-> [b \in TreeBuckets |-> ZeroCounter]],
                  now |-> 0,
                  handles |-> [h \in HandleIds |-> NoHandle],
                  pool |-> [h \in HandleIds |-> 0],
                  ce |-> Nil, calls |-> 0, last |-> NoTreeCall]

\* ce := core.Check(ent, nil)
TreeCheck(lvl, pick) ==
    /\ late.last.op = "none"
    /\ late.ce = Nil
    /\ late.calls < MaxTreeCalls
    /\ pick \in PoolChoices(late.handles, late.pool)
    /\ LET ent == NewEntry(lvl, late.now, MsgA)
           st  == Check(late.core, ent,
                        [ce |-> Nil, handles |-> late.handles, pool |-> late.pool,
                         pick |-> pick, counts |-> late.counts, trace |-> <<>>,
                         divzero |-> FALSE])
       IN  late' = [late EXCEPT
              !.calls = @ + 1, !.counts = st.counts, !.handles = st.handles,
              !.pool = st.pool, !.ce = st.ce,
              !.last = [NoTreeCall EXCEPT
                           !.op = "Check", !.ent = ent, !.counts0 = late.counts,
                           !.cores = IF st.ce = Nil THEN <<>> ELSE st.handles[st.ce].cores]]
    /\ UNCHANGED <<sam, logVars, tee, reg, ctr, fs>>

\* ce.Write()
TreeWrite ==
    /\ late.last.op = "none"
    /\ late.ce # Nil
    /\ LET r == CheckedWrite(late.ce, late.handles, late.pool)
       IN  late' = [late EXCEPT
              !.handles = r.handles, !.pool = r.pool, !.ce = Nil,
              !.last = [NoTreeCall EXCEPT
                           !.op = "Write", !.ent = late.handles[late.ce].Entry,
                           !.cores = late.handles[late.ce].cores, !.ev = r.ev]]
    /\ UNCHANGED <<sam, logVars, tee, reg, ctr, fs>>

\* The clock advances.
TreeTick ==
    /\ late.last.op = "none"
    /\ late.now < MaxTime
    /\ late' = [late EXCEPT !.now = @ + 1]
    /\ UNCHANGED <<sam, logVars, tee, reg, ctr, fs>>

\* The call returns.
TreeReturn ==
    /\ late.last.op # "none"
    /\ late' = [late EXCEPT !.last = NoTreeCall]
    /\ UNCHANGED <<sam, logVars, tee, reg, ctr, fs>>

TreeNext ==
    \/ \E lvl \in TreeLevels, pick \in HandleIds : TreeCheck(lvl, pick)
    \/ TreeWrite
    \/ TreeTick
    \/ TreeReturn

SpecTree == TreeInit /\ [][TreeNext]_vars

\* The ioCores below c that admit the entry, in member order, when the
\* counters are cnts: an ioCore admits an entry whose level it enables, a
\* sampler what its core admits unless the count of the entry is one it
\* drops, a fan-out what its members admit.
RECURSIVE Admitting(_, _, _)
Admitting(c, ent, cnts) ==
    CASE c.kind = "nop" -> <<>>
      [] c.kind = "io" -> IF ent.Level >= c.enab THEN <<c>> ELSE <<>>
      [] c.kind = "multi" ->
            Flatten([i \in DOMAIN c.cores |-> Admitting(c.cores[i], ent, cnts)])
      [] c.kind = "sampler" ->
            LET old == cnts[c.counts][CountersGet(ent.Level, ent.Message)]
                n   == IF ent.Time < old.resetAt THEN old.counter + 1 ELSE 1
            IN  IF n <= c.first \/ (n - c.first) % c.thereafter = 0
                THEN Admitting(c.core, ent, cnts)
                ELSE <<>>

\* C26: the cores on the handle that Check returns are the ioCores of the
\* tree that admit the entry, in member order, and the handle is nil when
\* there is none; Write calls Write once on each core of the handle, in
\* that order, with the entry stamped on the handle.
C26_CheckThenWrite ==
    /\ late.last.op = "Check"
          => LET adm == Admitting(late.core, late.last.ent, late.last.counts0)
             IN  /\ late.last.cores = adm
                 /\ (late.ce = Nil) <=> (adm = <<>>)
                 /\ late.ce # Nil => late.handles[late.ce].Entry = late.last.ent
    /\ late.last.op = "Write"
          => /\ Called(late.last.ev, "CoreWrite")
                   = [k \in DOMAIN late.last.cores |-> late.last.cores[k].enc]
             /\ OutWrites(late.last.ev)
                   = [k \in DOMAIN late.last.cores |->
                        <<"OutWrite", late.last.cores[k].out, late.last.ent, <<>> >>]

\* A handle with two cores was written on a tree of three ioCores, one of
\* which is below a sampler that dropped the entry.
C26_Witness ==
    /\ late.last.op = "Write" /\ late.core = Trees[2]
    /\ Len(late.last.cores) = 2
    /\ late.last.ent.Level = ErrorLevel
    /\ Called(late.last.ev, "CoreWrite") = <<1, 3>>

(***************************************************************************)
(* Specification SpecWindow: IncCheckReset is called on one counter, one   *)
(* call after the other, with timestamps before and after the Unix epoch.  *)
(* Here ctr holds the counter, the tick, and the last call: its timestamp, *)
(* the counter before it and the value it returned.                        *)
(***************************************************************************)
MaxWinCalls == 4
\* Timestamps in UnixNano, from before the epoch on.
WinTimes == -2..MaxTime

NoWinCall == [op |-> "none", tn |-> 0, before |-> ZeroCounter, n |-> 0]

WinInit ==
    /\ IdleSam /\ IdleLog /\ IdleTee /\ IdleReg /\ IdleFs /\ IdleLate
    /\ \E tick \in 0..MaxTick :
          ctr = [c |-> ZeroCounter, tick |-> tick, calls |-> 0, last |-> NoWinCall]

\* n := c.IncCheckReset(t, tick)
WinCall(tn) ==
    /\ ctr.calls < MaxWinCalls
    /\ LET r == IncCheckReset(ctr.c, tn, ctr.tick)
       IN  ctr' = [ctr EXCEPT !.c = r.c, !.calls = @ + 1,
                              !.last = [op |-> "IncCheckReset", tn |-> tn,
                                        before |-> ctr.c, n |-> r.n]]
    /\ UNCHANGED <<sam, logVars, tee, reg, fs, late>>

WinNext == \E tn \in WinTimes : WinCall(tn)

SpecWindow == WinInit /\ [][WinNext]_vars

\* The call incremented the count and left the deadline.
Incremented ==
    /\ ctr.c = [ctr.last.before EXCEPT !.counter = @ + 1]
    /\ ctr.last.n = ctr.c.counter

\* The call opened a window: the count is 1, the deadline its timestamp
\* plus the tick.
Opened ==
    /\ ctr.c = [resetAt |-> ctr.last.tn + ctr.tick, counter |-> 1]
    /\ ctr.last.n = 1

WindowByDeadline ==
    IF ctr.last.tn < ctr.last.before.resetAt THEN Incremented ELSE Opened

\* C29: a call stamped before the deadline increments the count and leaves
\* the deadline, a call stamped at or after the deadline sets the count to
\* 1 and the deadline to its timestamp plus the tick; the first call on a
\* fresh counter opens a window iff it is not stamped before the epoch.
C29_WindowByTimestamp ==
    ctr.last.op = "IncCheckReset"
    => /\ WindowByDeadline
       /\ ctr.calls = 1 => IF ctr.last.tn >= 0 THEN Opened ELSE Incremented

\* The same, with a first call that always opens a window.
C29_FirstCallResets ==
    ctr.last.op = "IncCheckReset"
    => /\ WindowByDeadline
       /\ ctr.calls = 1 => Opened

\* A call stamped exactly at the deadline of a window with two calls in it
\* opened the next window.
C29_Witness ==
    /\ ctr.last.op = "IncCheckReset" /\ ctr.tick > 0
    /\ ctr.last.before.counter = 2
    /\ ctr.last.tn = ctr.last.before.resetAt
    /\ ctr.c.counter = 1 /\ ctr.c.resetAt = ctr.last.tn + ctr.tick
====
